---- MODULE Spec2Model ----
(***************************************************************************)
(* DOTA 2 live props system (src/dota_live_system.py): the snapshot store  *)
(* (dota_props, predictions), the line-history ledger (prop_history), the  *)
(* change tracker (detect_changes), the alert dispatcher (post_to_discord) *)
(* and the monitor loop that wires them.                                   *)
(*                                                                         *)
(* Numbers with one decimal are kept in tenths: a line of 5.5 is 55, an    *)
(* edge of 9.1 % is 91.                                                    *)
(***************************************************************************)
EXTENDS Integers, Sequences, FiniteSets, TLC

VARIABLES
    dota_props,     \* committed rows of table dota_props (DB_PATH), in rowid order
    predictions,    \* committed rows of table predictions (DB_PATH), in rowid order
    prop_history,   \* committed rows of table prop_history (HISTORY_DB), in rowid order
    posted_slips,   \* committed rows of table posted_slips (HISTORY_DB)
    txn,            \* the writer connection's open transaction on DB_PATH
    pc,             \* position of the pipeline process
    props,          \* local `props` of the running cycle / call
    preds,          \* local `predictions` of the running cycle / call
    new_props,      \* result of the last detect_changes call
    changed_props,  \* result of the last detect_changes call
    webhook,        \* what the last cycle sent to the webhook
    check_count,    \* monitor_loop's check_count (capped)
    reader_state,       \* what the concurrent reader last loaded
    snap0,          \* the committed snapshot when the running save was entered
    idx,            \* position of the insert loops of the running save
    data,           \* local `data`: what fetch_underdog_data returned
    url,            \* position of the loop over API_URLS of the running fetch
    requests_log,   \* the requests of the running fetch and what answered them
    pred_call,      \* the arguments of a prediction call
    pred_result,    \* what the prediction call returned
    is_updating,    \* the dashboard's STATE["is_updating"]
    tasks,          \* the dashboard's asyncio tasks and where each of them stands
    current,        \* the task the event loop is running (0: none)
    arrived         \* POST /api/update requests received and not yet handled

vars == <<dota_props, predictions, prop_history, posted_slips, txn, pc, props,
          preds, new_props, changed_props, webhook, check_count, reader_state, snap0,
          idx, data, url, requests_log, pred_call, pred_result,
          is_updating, tasks, current, arrived>>

\* the state of a fetch_underdog_data call / of a prediction call
fetchVars == <<data, url, requests_log>>
predVars == <<pred_call, pred_result>>

\* the state of the dashboard process (src/web/dota_dashboard.py)
dashVars == <<is_updating, tasks, current, arrived>>

-----------------------------------------------------------------------------
(* Bounds of the model *)

\* longest list of props one cycle handles
MaxBatch == 2
MaxTriggers == 3
\* cycles a monitor run is followed for
MaxChecks == 3

-----------------------------------------------------------------------------
(* Program constants *)

\* MIN_EDGE = 3.0, in tenths of a percent
MIN_EDGE == 30

-----------------------------------------------------------------------------
(* Input domains *)

\* the fields of a prop outside its identity key, as extract_match_info and
\* the odds scan of parse_dota_props fill them
MetaOG ==
    [team |-> "OG", opponent |-> "Tundra", match_title |-> "OG vs Tundra",
     over_odds |-> "-110", under_odds |-> "-110"]
MetaLiquid ==
    [team |-> "Liquid", opponent |-> "Secret", match_title |-> "Liquid vs Secret",
     over_odds |-> "-120", under_odds |-> "100"]

\* the dict parse_dota_props appends
MkProp(p, s, l, m) ==
    [player |-> p, team |-> m.team, opponent |-> m.opponent,
     match_title |-> m.match_title, stat_type |-> s, line |-> l,
     over_odds |-> m.over_odds, under_odds |-> m.under_odds]

\* the lists of at most MaxBatch props over a set
ListsOver(S) == UNION {[1..n -> S] : n \in 0..MaxBatch}

-----------------------------------------------------------------------------
(* Helpers on sequences *)

Range(s) == {s[k] : k \in 1..Len(s)}

\* the identity key (player, stat_type, line) of a prop or a row
Key(r) == <<r.player, r.stat_type, r.line>>

Keys(s) == {Key(s[k]) : k \in 1..Len(s)}

-----------------------------------------------------------------------------
(* Python strings: the str methods the normalizer uses, on TLA+ strings.    *)
(* The only whitespace character of the feed's texts is the blank.          *)

Char(s, i) == SubSeq(s, i, i)

\* s[i:], 1-based
From(s, i) == SubSeq(s, i, Len(s))

\* 'A'..'Z', '0'..'9' and the map of str.lower() on single characters
UpperSet == {Char("ABCDEFGHIJKLMNOPQRSTUVWXYZ", i) : i \in 1..26}
DigitSet == {"0", "1", "2", "3", "4", "5", "6", "7", "8", "9"}
LowerMap == [c \in UpperSet |->
                Char("abcdefghijklmnopqrstuvwxyz",
                     CHOOSE i \in 1..26 : Char("ABCDEFGHIJKLMNOPQRSTUVWXYZ", i) = c)]
DigitMap == [c \in DigitSet |-> (CHOOSE i \in 1..10 : Char("0123456789", i) = c) - 1]

\* str.lower()
RECURSIVE Lower(_)
Lower(s) ==
    IF s = "" THEN ""
    ELSE (IF Char(s, 1) \in UpperSet THEN LowerMap[Char(s, 1)] ELSE Char(s, 1))
             \o Lower(From(s, 2))

\* sub in s
Contains(s, sub) ==
    \E i \in 1..(Len(s) - Len(sub) + 1) : SubSeq(s, i, i + Len(sub) - 1) = sub

\* s.startswith(prefix)
StartsWith(s, prefix) == Len(prefix) <= Len(s) /\ SubSeq(s, 1, Len(prefix)) = prefix

\* s.find(sub) + 1: the first position of sub in s, 0 when there is none
Find(s, sub) ==
    IF Contains(s, sub)
    THEN CHOOSE i \in 1..(Len(s) - Len(sub) + 1) :
            /\ SubSeq(s, i, i + Len(sub) - 1) = sub
            /\ \A j \in 1..(i - 1) : SubSeq(s, j, j + Len(sub) - 1) # sub
    ELSE 0

\* s.replace(sub, ''), sub not empty: the occurrences from left to right
RECURSIVE Remove(_, _)
Remove(s, sub) ==
    IF Find(s, sub) = 0 THEN s
    ELSE SubSeq(s, 1, Find(s, sub) - 1) \o Remove(From(s, Find(s, sub) + Len(sub)), sub)

RECURSIVE LStrip(_)
LStrip(s) == IF s # "" /\ Char(s, 1) = " " THEN LStrip(From(s, 2)) ELSE s

RECURSIVE RStrip(_)
RStrip(s) == IF s # "" /\ Char(s, Len(s)) = " " THEN RStrip(SubSeq(s, 1, Len(s) - 1)) ELSE s

\* str.strip()
Strip(s) == RStrip(LStrip(s))

\* the value of a string of digits
RECURSIVE IntOfDigits(_)
IntOfDigits(s) ==
    IF s = "" THEN 0
    ELSE 10 * IntOfDigits(SubSeq(s, 1, Len(s) - 1)) + DigitMap[Char(s, Len(s))]

AllDigits(s) == \A i \in 1..Len(s) : Char(s, i) \in DigitSet
-----------------------------------------------------------------------------
(* Python values of a decoded feed document.  A dict is a record that holds *)
(* "type" and the keys that are present; floats are kept in hundredths.     *)

None == [type |-> "None"]
PyStr(s) == [type |-> "str", s |-> s]
PyInt(i) == [type |-> "int", i |-> i]
PyFloat(h) == [type |-> "float", h |-> h]
PyList(items) == [type |-> "list", items |-> items]
EmptyDict == [type |-> "dict"]

\* float('nan') and float('inf') as hundredths: values outside every range
\* the feed's numbers have; no order comparison with NaN is true
NaN == -999999999
Inf == 999999990

IsDict(v) == v.type = "dict"
IsStr(v) == v.type = "str"

\* d.get(key, default) of a dict d
Get(d, key, default) == IF key \in DOMAIN d THEN d[key] ELSE default

\* bool(v)
Truthy(v) ==
    CASE v.type = "None" -> FALSE
      [] v.type = "str" -> v.s # ""
      [] v.type = "int" -> v.i # 0
      [] v.type = "float" -> v.h # 0
      [] v.type = "list" -> v.items # <<>>
      [] v.type = "dict" -> DOMAIN v # {"type"}

\* repr of a float of at most two decimals
StrOfFloat(h) ==
    LET a == IF h < 0 THEN -h ELSE h
        frac == a % 100
    IN IF h = NaN THEN "nan"
       ELSE IF a = Inf THEN (IF h < 0 THEN "-inf" ELSE "inf")
       ELSE (IF h < 0 THEN "-" ELSE "") \o ToString(a \div 100) \o "." \o
            (IF frac % 10 = 0 THEN ToString(frac \div 10)
             ELSE ToString(frac \div 10) \o ToString(frac % 10))

\* str(v)
StrOf(v) ==
    CASE v.type = "str" -> v.s
      [] v.type = "int" -> ToString(v.i)
      [] v.type = "float" -> StrOfFloat(v.h)
      [] v.type = "None" -> "None"
      [] v.type = "list" -> "[...]"
      [] v.type = "dict" -> "{...}"

\* float(s) of a str: blanks stripped, a sign, digits with or without a
\* point, nan, inf; decimals after the second and exponents are outside the
\* texts the model draws.  ok is FALSE where float() raises ValueError
FloatOfStr(s) ==
    LET t == Strip(s)
        signed == t # "" /\ Char(t, 1) \in {"-", "+"}
        neg == t # "" /\ Char(t, 1) = "-"
        body == IF signed THEN From(t, 2) ELSE t
        dot == Find(body, ".")
        ip == IF dot = 0 THEN body ELSE SubSeq(body, 1, dot - 1)
        fp == IF dot = 0 THEN "" ELSE From(body, dot + 1)
        mag == 100 * IntOfDigits(ip) + IntOfDigits(SubSeq(fp \o "00", 1, 2))
    IN IF Lower(body) = "nan" THEN [ok |-> TRUE, f |-> NaN]
       ELSE IF Lower(body) \in {"inf", "infinity"}
            THEN [ok |-> TRUE, f |-> IF neg THEN -Inf ELSE Inf]
       ELSE IF AllDigits(ip) /\ AllDigits(fp) /\ (ip # "" \/ fp # "")
            THEN [ok |-> TRUE, f |-> IF neg THEN -mag ELSE mag]
       ELSE [ok |-> FALSE, f |-> 0]

\* float(v): ok is FALSE where it raises (ValueError, TypeError)
FloatOf(v) ==
    CASE v.type = "int" -> [ok |-> TRUE, f |-> 100 * v.i]
      [] v.type = "float" -> [ok |-> TRUE, f |-> v.h]
      [] v.type = "str" -> FloatOfStr(v.s)
      [] OTHER -> [ok |-> FALSE, f |-> 0]

\* for x in v: ok is FALSE where v is not iterable (TypeError); a str yields
\* its characters and a dict its keys, all of them strs
IterItems(v) ==
    CASE v.type = "list" -> [ok |-> TRUE, items |-> v.items]
      [] v.type = "str" -> [ok |-> TRUE, items |-> [k \in 1..Len(v.s) |-> PyStr(Char(v.s, k))]]
      [] v.type = "dict" ->
            [ok |-> TRUE,
             items |-> [k \in 1..(Cardinality(DOMAIN v) - 1) |-> PyStr("key")]]
      [] OTHER -> [ok |-> FALSE, items |-> <<>>]

\* hash(v) works: the value can be a dict key
Hashable(v) == v.type \notin {"list", "dict"}
-----------------------------------------------------------------------------
(* PropNormalizer: is_dota_prop, extract_player_name, extract_match_info,   *)
(* parse_dota_props                                                         *)

DOTA_STAT_MAP ==
    << <<"kills", "Kills">>, <<"kills_in_game_1", "Kills">>,
       <<"kills_in_game_2", "Kills">>, <<"fantasy_points", "Fantasy Points">>,
       <<"fantasy_points_in_game_1", "Fantasy Points">>,
       <<"fantasy_points_in_game_2", "Fantasy Points">>,
       <<"assists", "Assists">>, <<"assists_in_game_1", "Assists">>,
       <<"deaths", "Deaths">>, <<"deaths_in_game_1", "Deaths">> >>

DOTA_TEAMS ==
    << "team spirit", "og", "tundra", "liquid", "team liquid", "secret", "team secret",
       "entity", "betboom", "psg.lgd", "lgd", "xtreme", "quest", "falcons", "nouns",
       "gaimin", "talon", "aurora", "beastcoast", "eg", "evil geniuses", "nigma",
       "alliance", "vp", "virtus.pro", "navi", "natus vincere", "aster", "rng" >>

KNOWN_PLAYERS ==
    << "Crystallis", "Yuma", "Ame", "skiter", "Pure", "Watson", "flyfly", "33",
       "Collapse", "Mira", "Larl", "Miposhka", "Yatoro", "TorontoTokyo",
       "Nisha", "zai", "Puppey", "gpk", "Quinn", "Arteezy", "Cr1t",
       "SumaiL", "Topson", "ana", "Ceb", "JerAx", "N0tail", "Fly",
       "RAMZES666", "Solo", "w33", "Miracle", "GH", "Mind_Control", "KuroKy",
       "MidOne", "SoNNeikO", "TORONTOTOKYO", "DM", "Faith_bian",
       "NothingToSay", "XinQ", "Erika", "gotthejuice", "Crystallize" >>

\* player.lower() for player in KNOWN_PLAYERS
KnownPlayersLower == [k \in 1..Len(KNOWN_PLAYERS) |-> Lower(KNOWN_PLAYERS[k])]

\* the first index of a non-empty set of indexes / the last
First(S) == CHOOSE k \in S : \A j \in S : k <= j
Last(S) == CHOOSE k \in S : \A j \in S : j <= k

\* is_dota_prop(title, over_under), title a str and over_under a dict
is_dota_prop(title, over_under) ==
    LET title_lower == Lower(title)
        sport_id == Lower(StrOf(Get(over_under, "sport_id", PyStr(""))))
        team_hit == \E k \in 1..Len(DOTA_TEAMS) : Contains(title_lower, DOTA_TEAMS[k])
        player_hit == \E k \in 1..Len(KNOWN_PLAYERS) :
                          Contains(title_lower, KnownPlayersLower[k])
    IN \/ Contains(title_lower, "dota")
       \/ Contains(sport_id, "esport") /\ (team_hit \/ player_hit)
       \/ team_hit

\* lines 257-261: the value of the first key of DOTA_STAT_MAP that stat_raw
\* holds, "" for None
StatTypeOf(stat_raw) ==
    LET hits == {k \in 1..Len(DOTA_STAT_MAP) : Contains(stat_raw, DOTA_STAT_MAP[k][1])}
    IN IF hits = {} THEN "" ELSE DOTA_STAT_MAP[First(hits)][2]

\* lines 185-193: the name a 'Dota:' title holds, "" when it yields none
NameFromTitle(title) ==
    IF StartsWith(title, "Dota:")
    THEN LET player_part == Strip(From(title, Find(title, ":") + 1))
             stats == <<"Kills", "Fantasy Points", "Assists", "Deaths", "Last Hits",
                        "GPM", "XPM">>
             hits == {k \in 1..Len(stats) :
                         /\ Contains(player_part, stats[k])
                         /\ Strip(Remove(player_part, stats[k])) # ""}
         IN IF hits = {} THEN "" ELSE Strip(Remove(player_part, stats[First(hits)]))
    ELSE ""

\* the dict {a['id']: a for a in entries}: the entry a key maps to is the
\* last one of that id
HasId(entries, id) == \E k \in 1..Len(entries) : entries[k].id = id
ById(entries, id) == entries[Last({k \in 1..Len(entries) : entries[k].id = id})]

\* lines 195-208: the name found through appearance and player; ok is FALSE
\* where the lookup raises
NameFromPlayers(appearance_stat, appearances, players) ==
    LET appearance_id == Get(appearance_stat, "appearance_id", None)
        player_id == Get(ById(appearances, appearance_id), "player_id", None)
        player == ById(players, player_id)
        first_v == Get(player, "first_name", PyStr(""))
        last_v == Get(player, "last_name", PyStr(""))
        first == Strip(first_v.s)
        last == Strip(last_v.s)
    IN IF ~Truthy(appearance_id) THEN [ok |-> TRUE, name |-> ""]
       ELSE IF ~Hashable(appearance_id) THEN [ok |-> FALSE, name |-> ""]
       ELSE IF ~HasId(appearances, appearance_id) THEN [ok |-> TRUE, name |-> ""]
       ELSE IF ~Truthy(player_id) THEN [ok |-> TRUE, name |-> ""]
       ELSE IF ~Hashable(player_id) THEN [ok |-> FALSE, name |-> ""]
       ELSE IF ~HasId(players, player_id) THEN [ok |-> TRUE, name |-> ""]
       ELSE IF ~IsStr(first_v) \/ ~IsStr(last_v) THEN [ok |-> FALSE, name |-> ""]
       ELSE IF first # "" /\ last = "" THEN [ok |-> TRUE, name |-> first]
       ELSE IF last # "" /\ first = "" THEN [ok |-> TRUE, name |-> last]
       ELSE IF first # "" THEN [ok |-> TRUE, name |-> Strip(first \o " " \o last)]
       ELSE [ok |-> TRUE, name |-> ""]

\* lines 210-212: the first known player the title holds, "" for None
NameFromKnown(title) ==
    LET hits == {k \in 1..Len(KNOWN_PLAYERS) : Contains(Lower(title), KnownPlayersLower[k])}
    IN IF hits = {} THEN "" ELSE KNOWN_PLAYERS[First(hits)]

\* extract_player_name: name is "" where it returns None
extract_player_name(title, appearance_stat, appearances, players) ==
    LET by_players == NameFromPlayers(appearance_stat, appearances, players)
    IN IF NameFromTitle(title) # "" THEN [ok |-> TRUE, name |-> NameFromTitle(title)]
       ELSE IF ~by_players.ok \/ by_players.name # "" THEN by_players
       ELSE [ok |-> TRUE, name |-> NameFromKnown(title)]

\* a character of the class [A-Za-z0-9.\s]
ClassSet == UpperSet \cup {LowerMap[c] : c \in UpperSet} \cup DigitSet \cup {".", " "}

\* re.search(r'([A-Za-z0-9.\s]+)\s+' + sep + r'\s+([A-Za-z0-9.\s]+)', t,
\* re.IGNORECASE), sep being vs\.? (dotted) or @: the leftmost start, the
\* first group as long as it can be, then the second; groups stripped
RegexSearch(t, sep, dotted) ==
    LET n == Len(t)
        \* where the second \s+ begins when the separator begins at v
        After(v) == IF dotted /\ Char(t, v + Len(sep)) = "." THEN v + Len(sep) + 1
                    ELSE v + Len(sep)
        SepAt(v) == /\ v >= 3
                    /\ v + Len(sep) + 1 <= n
                    /\ Char(t, v - 1) = " "
                    /\ Char(t, v - 2) \in ClassSet
                    /\ Lower(SubSeq(t, v, v + Len(sep) - 1)) = sep
                    /\ After(v) + 1 <= n
                    /\ Char(t, After(v)) = " "
                    /\ Char(t, After(v) + 1) \in ClassSet
        seps == {v \in 1..n : SepAt(v)}
        Run(i, j) == \A k \in i..j : Char(t, k) \in ClassSet
        StartOf(v) == First({i \in 1..(v - 2) : Run(i, v - 2)})
        start == First({StartOf(v) : v \in seps})
        sep_at == Last({v \in seps : Run(start, v - 2)})
        end == Last({e \in After(sep_at)..n : Run(After(sep_at), e)})
    IN IF seps = {} THEN [found |-> FALSE, team |-> "", opponent |-> ""]
       ELSE [found |-> TRUE,
             team |-> Strip(SubSeq(t, start, sep_at - 2)),
             opponent |-> Strip(SubSeq(t, After(sep_at), end))]

\* lines 224-232: the groups of the match, or the title alone
MatchInfo(m, title) ==
    IF m.found
    THEN [team |-> m.team, opponent |-> m.opponent,
          match_title |-> m.team \o " vs " \o m.opponent]
    ELSE [team |-> "", opponent |-> "", match_title |-> title]

\* lines 219-222: the vs pattern, and the @ pattern where it finds nothing
FirstMatch(vs, title) ==
    IF vs.found THEN vs ELSE RegexSearch(title, "@", FALSE)

\* extract_match_info(title)
extract_match_info(title) ==
    MatchInfo(FirstMatch(RegexSearch(title, "vs", TRUE), title), title)

\* line 284: payout and abs(float(payout) - 1.0) > 0.1 on a float f in
\* hundredths.  In doubles 1.1 - 1.0 exceeds 0.1 and 1.0 - 0.9 does not
PayoutOff(f) == f # NaN /\ (f > 109 \/ f < 90)

\* lines 279-290, from the option at the head of opts on
RECURSIVE OddsLoop(_, _, _)
OddsLoop(opts, over_odds, under_odds) ==
    IF opts = <<>> THEN [ok |-> TRUE, over_odds |-> over_odds, under_odds |-> under_odds]
    ELSE LET opt == Head(opts)
             choice_v == Get(opt, "choice", PyStr(""))
             choice == Lower(choice_v.s)
             american == Get(opt, "american_price", None)
             payout == Get(opt, "payout_multiplier", PyFloat(100))
             price == IF Truthy(american) THEN StrOf(american) ELSE "-110"
         IN IF ~IsDict(opt) THEN [ok |-> FALSE, over_odds |-> "", under_odds |-> ""]
            ELSE IF ~IsStr(choice_v) THEN [ok |-> FALSE, over_odds |-> "", under_odds |-> ""]
            ELSE IF Truthy(payout) /\ ~FloatOf(payout).ok
                 THEN [ok |-> FALSE, over_odds |-> "", under_odds |-> ""]
            ELSE IF Truthy(payout) /\ PayoutOff(FloatOf(payout).f)
                 THEN OddsLoop(Tail(opts), over_odds, under_odds)
            ELSE IF choice \in {"higher", "over"}
                 THEN OddsLoop(Tail(opts), price, under_odds)
            ELSE IF choice \in {"lower", "under"}
                 THEN OddsLoop(Tail(opts), over_odds, price)
            ELSE OddsLoop(Tail(opts), over_odds, under_odds)

LineError == [kind |-> "error"]
LineSkipped == [kind |-> "skipped"]

\* lines 292-301: the prop of an entry
PropOf(stat_type, line_value, player_name, match_info, odds) ==
    IF ~odds.ok THEN LineError
    ELSE [kind |-> "prop",
          prop |-> [player |-> player_name.name, team |-> match_info.team,
                    opponent |-> match_info.opponent,
                    match_title |-> match_info.match_title,
                    stat_type |-> stat_type, line |-> IF line_value.f = NaN THEN NaN ELSE line_value.f \div 10,
                    over_odds |-> odds.over_odds, under_odds |-> odds.under_odds]]

\* lines 255-301 of a Dota entry: stat, line value, player, match and odds
ParseFields(stat_v, stat_type, line_value, player_name, match_info, options) ==
    IF ~IsStr(stat_v) THEN LineError
    ELSE IF stat_type = "" THEN LineSkipped
    ELSE IF ~line_value.ok THEN LineError
    ELSE IF line_value.f # NaN /\ line_value.f <= 0 THEN LineSkipped
    ELSE IF ~player_name.ok THEN LineError
    ELSE IF player_name.name = "" THEN LineSkipped
    ELSE IF ~options.ok THEN LineError
    ELSE PropOf(stat_type, line_value, player_name, match_info,
                OddsLoop(options.items, "-110", "-110"))

\* lines 247-304, the body of the loop for one entry of over_under_lines:
\* a prop, a continue (skipped) or an exception caught by line 303 (error)
ParseLine(line, appearances, players) ==
    LET over_under == Get(line, "over_under", EmptyDict)
        title_v == Get(over_under, "title", PyStr(""))
        appearance_stat == Get(over_under, "appearance_stat", EmptyDict)
        stat_v == Get(appearance_stat, "stat", PyStr(""))
        own_value == Get(line, "stat_value", PyInt(0))
    IN IF ~IsDict(line) THEN LineError
       ELSE IF ~IsDict(over_under) THEN LineError
       ELSE IF ~IsStr(title_v) THEN LineError
       ELSE IF ~is_dota_prop(title_v.s, over_under) THEN LineSkipped
       ELSE IF ~IsDict(appearance_stat) THEN LineError
       ELSE ParseFields(stat_v, StatTypeOf(Lower(stat_v.s)),
                        FloatOf(IF Truthy(own_value) THEN own_value
                                ELSE Get(over_under, "stat_value", PyInt(0))),
                        extract_player_name(title_v.s, appearance_stat, appearances, players),
                        extract_match_info(title_v.s),
                        IterItems(Get(line, "options", PyList(<<>>))))

\* a handler that gives up the rest of the batch: except Exception: break
OnLineErrorStop(rest) == <<>>

\* lines 303-304: except Exception: continue - the entries after the failed
\* one are handled as if it had not been there
OnLineError(rest) == rest

\* lines 246-304: the props of the entries, in order
Collect(r, rest) ==
    IF r.kind = "prop" THEN <<r.prop>> \o rest
    ELSE IF r.kind = "error" THEN OnLineError(rest)
    ELSE rest

RECURSIVE ParseLines(_, _, _)
ParseLines(lines, appearances, players) ==
    IF lines = <<>> THEN <<>>
    ELSE Collect(ParseLine(Head(lines), appearances, players),
                 ParseLines(Tail(lines), appearances, players))

\* lines 243-244: {a['id']: a for a in ...} can be built: every entry is a
\* dict that holds a hashable 'id'
Indexable(items) ==
    \A k \in 1..Len(items) :
        IsDict(items[k]) /\ "id" \in DOMAIN items[k] /\ Hashable(items[k].id)

\* parse_dota_props(data): ok is FALSE where the call raises (lines 242-246
\* are outside the try of line 247)
parse_dota_props(data_) ==
    LET lines == IterItems(Get(data_, "over_under_lines", PyList(<<>>)))
        appearances == IterItems(Get(data_, "appearances", PyList(<<>>)))
        players == IterItems(Get(data_, "players", PyList(<<>>)))
    IN IF ~Truthy(data_) THEN [ok |-> TRUE, props |-> <<>>]
       ELSE IF ~IsDict(data_) THEN [ok |-> FALSE, props |-> <<>>]
       ELSE IF \/ ~appearances.ok \/ ~Indexable(appearances.items)
               \/ ~players.ok \/ ~Indexable(players.items)
               \/ ~lines.ok
            THEN [ok |-> FALSE, props |-> <<>>]
       ELSE [ok |-> TRUE,
             props |-> ParseLines(lines.items, appearances.items, players.items)]

-----------------------------------------------------------------------------
(* FeedClient: fetch_underdog_data *)

API_URLS ==
    << "https://api.underdogfantasy.com/beta/v5/over_under_lines",
       "https://api.underdogfantasy.com/v1/over_under_lines" >>

\* requests.get raises a RequestException (no connection, timeout)
Timeout == [kind |-> "exception"]

\* requests.get returns a response; body is the value response.json() decodes
\* or NotJson where the text is no JSON
Response(status, body) == [kind |-> "response", status_code |-> status, body |-> body]
NotJson == [type |-> "not-json"]

\* a client that takes the body of any response, whatever its status
StatusAny(r) == TRUE

\* line 149: response.status_code == 200
StatusOk(r) == r.status_code = 200

\* lines 145-157 for one URL that answers r: the ways the pass can end.
\* response.json() on a text that is no JSON raises a JSONDecodeError, which
\* is a RequestException (caught, line 155) from requests 2.27 on and a plain
\* ValueError (not caught) before; data.get on a value that is no dict and
\* len() of a value without a length raise past line 155
Outcomes(r) ==
    IF r.kind = "exception" THEN {"next"}
    ELSE IF ~StatusOk(r) THEN {"next"}
    ELSE IF r.body = NotJson THEN {"next", "raise"}
    ELSE IF ~IsDict(r.body) THEN {"raise"}
    ELSE IF Get(r.body, "over_under_lines", PyList(<<>>)).type \notin {"list", "str", "dict"}
         THEN {"raise"}
    ELSE {"return"}

\* fetch_underdog_data() is entered
FetchEnter ==
    /\ url' = 1
    /\ requests_log' = <<>>
    /\ pc' = "fetching"

\* one pass of the loop of lines 144-157, the URL answering r; after the
\* last URL the loop ends and line 159 returns None.  An exception that
\* leaves the function ends the process: no caller catches it
FetchTry(r) ==
    /\ pc = "fetching"
    /\ url <= Len(API_URLS)
    /\ requests_log' = Append(requests_log, [url |-> API_URLS[url], response |-> r])
    /\ \E o \in Outcomes(r) :
          \/ /\ o = "return"
             /\ data' = r.body
             /\ pc' = "fetched"
             /\ url' = url
          \/ /\ o = "next"
             /\ url' = url + 1
             /\ IF url + 1 > Len(API_URLS)
                THEN data' = None /\ pc' = "fetched"
                ELSE data' = data /\ pc' = pc
          \/ /\ o = "raise"
             /\ pc' = "failed"
             /\ UNCHANGED <<data, url>>
    /\ UNCHANGED <<dota_props, predictions, prop_history, posted_slips, txn, props,
                   preds, new_props, changed_props, webhook, check_count,
                   reader_state, snap0, idx, predVars, dashVars>>

-----------------------------------------------------------------------------
(* ChangeTracker: detect_changes *)

\* str(float) of a one-decimal value: 5.5 -> "5.5", 6.0 -> "6.0"
LineStr(l) == ToString(l \div 10) \o "." \o ToString(l % 10)

\* a hash whose text also holds the team: what a tracker keyed on the whole
\* prop would compute
prop_hash_with_team(prop) ==
    prop.player \o "_" \o prop.stat_type \o "_" \o LineStr(prop.line) \o "_" \o prop.team

\* hashlib.md5(f"{player}_{stat_type}_{line}"): the digest is taken as
\* collision-free, so the hashed text stands for it
prop_hash(prop) ==
    prop.player \o "_" \o prop.stat_type \o "_" \o LineStr(prop.line)

\* a lookup that knows a hash only while it is the latest line recorded for
\* its (player, stat_type): what a tracker comparing with the current line does
SelectByHashIfLatest(hist, h) ==
    {k \in 1..Len(hist) :
        /\ hist[k].prop_hash = h
        /\ \A j \in 1..Len(hist) :
              (hist[j].player = hist[k].player /\ hist[j].stat_type = hist[k].stat_type)
                  => hist[j].timestamp <= hist[k].timestamp}

\* SELECT id FROM prop_history WHERE prop_hash = ? ... fetchone()
SelectByHash(hist, h) == {k \in 1..Len(hist) : hist[k].prop_hash = h}

\* the same SELECT with ORDER BY timestamp ASC: the oldest row
SelectOldestLine(hist, prop) ==
    LET same == {k \in 1..Len(hist) : /\ hist[k].player = prop.player
                                      /\ hist[k].stat_type = prop.stat_type}
    IN {k \in same : \A j \in same : hist[k].timestamp <= hist[j].timestamp}

\* SELECT line FROM prop_history WHERE player = ? AND stat_type = ?
\* ORDER BY timestamp DESC LIMIT 1: the row indexes it returns (none or one)
SelectLatestLine(hist, prop) ==
    LET same == {k \in 1..Len(hist) : /\ hist[k].player = prop.player
                                      /\ hist[k].stat_type = prop.stat_type}
    IN {k \in same : \A j \in same : hist[j].timestamp <= hist[k].timestamp}

\* an insert that overwrites the row of the same (player, stat_type): what
\* a ledger keeping one current line per player and stat would do
InsertOrReplaceLatest(hist, row) ==
    Append(SelectSeq(hist, LAMBDA r : ~(r.player = row.player /\ r.stat_type = row.stat_type)),
           row)

\* INSERT OR IGNORE INTO prop_history: prop_hash is UNIQUE
InsertOrIgnore(hist, row) ==
    IF SelectByHash(hist, row.prop_hash) # {} THEN hist ELSE Append(hist, row)

\* a tracker that classifies and never records what it classified
DetectOneNoInsert(acc, prop) ==
    LET h == prop_hash(prop)
        result == SelectLatestLine(acc.hist, prop)
    IN IF SelectByHash(acc.hist, h) # {} THEN acc
       ELSE IF result # {} /\ acc.hist[CHOOSE k \in result : TRUE].line # prop.line
            THEN [acc EXCEPT !.changed = Append(@, prop @@ ("old_line" :>
                                 acc.hist[CHOOSE k \in result : TRUE].line))]
            ELSE [acc EXCEPT !.new = Append(@, prop)]

\* one pass of the loop body of detect_changes
DetectOne(acc, prop) ==
    LET h == prop_hash(prop)
        result == SelectLatestLine(acc.hist, prop)
        row == [player |-> prop.player, stat_type |-> prop.stat_type,
                line |-> prop.line, timestamp |-> Len(acc.hist) + 1, prop_hash |-> h]
    IN IF SelectByHash(acc.hist, h) # {}
       THEN acc
       ELSE IF result # {} /\ acc.hist[CHOOSE k \in result : TRUE].line # prop.line
            THEN [hist |-> InsertOrIgnore(acc.hist, row),
                  new |-> acc.new,
                  changed |-> Append(acc.changed, prop @@ ("old_line" :>
                                 acc.hist[CHOOSE k \in result : TRUE].line))]
            ELSE [hist |-> InsertOrIgnore(acc.hist, row),
                  new |-> Append(acc.new, prop),
                  changed |-> acc.changed]

\* detect_changes(props) on history hist: the history it commits and the
\* two lists it returns
RECURSIVE DetectLoop(_, _)
DetectLoop(acc, batch) ==
    IF batch = <<>> THEN acc ELSE DetectLoop(DetectOne(acc, Head(batch)), Tail(batch))

DetectChanges(hist, batch) ==
    DetectLoop([hist |-> hist, new |-> <<>>, changed |-> <<>>], batch)

\* a detect_changes whose inserts are never committed
detect_changes_uncommitted(batch) ==
    LET r == DetectChanges(prop_history, batch)
    IN /\ prop_history' = prop_history
       /\ new_props' = r.new
       /\ changed_props' = r.changed

\* the call detect_changes(batch): its commit on HISTORY_DB and its results
detect_changes(batch) ==
    LET r == DetectChanges(prop_history, batch)
    IN /\ prop_history' = r.hist
       /\ new_props' = r.new
       /\ changed_props' = r.changed

-----------------------------------------------------------------------------
(* PredictionEngine: generate_prediction, run_predictions *)

\* get_player_averages(): the rows of player_averages in DATA_DB, which this
\* program only reads; ana has averages, Mind_Control has none
player_avgs ==
    [p \in {"ana"} |->
        [avg_kills |-> 58, last_5_kills |-> 60, last_10_kills |-> 59,
         avg_fantasy |-> 152, last_5_fantasy |-> 160, last_10_fantasy |-> 155]]

Abs(x) == IF x < 0 THEN -x ELSE x
Min(a, b) == IF a <= b THEN a ELSE b

\* round(n / d) for n >= 0, d > 0, ties to even as Python's round()
RoundDiv(n, d) ==
    LET q == n \div d
        r == n % d
    IN IF 2 * r < d THEN q
       ELSE IF 2 * r > d THEN q + 1
       ELSE IF q % 2 = 0 THEN q ELSE q + 1

\* a baseline that falls back on a league average of 5.0 for a player without
\* averages, as DotaPredictionEngine.predict does
BaselineLeagueAverage(player, stat_type, line, avgs) ==
    IF player \in DOMAIN avgs
    THEN IF stat_type \in {"Kills"} THEN avgs[player].last_5_kills
         ELSE IF stat_type \in {"Fantasy Points"} THEN avgs[player].last_5_fantasy
         ELSE IF stat_type \in {"Assists"} THEN (avgs[player].avg_kills * 12) \div 10
         ELSE line
    ELSE 50

\* the baseline generate_prediction selects (lines 356-368), in tenths
Baseline(player, stat_type, line, avgs) ==
    IF player \in DOMAIN avgs
    THEN IF stat_type \in {"Kills"} THEN avgs[player].last_5_kills
         ELSE IF stat_type \in {"Fantasy Points"} THEN avgs[player].last_5_fantasy
         ELSE IF stat_type \in {"Assists"} THEN (avgs[player].avg_kills * 12) \div 10
         ELSE line
    ELSE line

\* a decision that passes on an edge of exactly MIN_EDGE: abs(edge) <= MIN_EDGE
IsSmallEdgeInclusive(diff, line) ==
    IF line > 0 THEN 1000 * Abs(diff) <= MIN_EDGE * line ELSE TRUE

\* line 373: abs(edge) < MIN_EDGE on the unrounded edge diff / line * 100,
\* which is 0 for line <= 0 (line 371)
IsSmallEdge(diff, line) ==
    IF line > 0 THEN 1000 * Abs(diff) < MIN_EDGE * line ELSE TRUE

\* lines 370-392: the decision on a prediction and a line, both in tenths;
\* edge in tenths of a percent, confidence in whole percent, ev in tenths of
\* a percent
Decide(prediction, line) ==
    LET diff == prediction - line
        sign == IF diff < 0 THEN -1 ELSE 1
        edge == IF line > 0 THEN sign * RoundDiv(1000 * Abs(diff), line) ELSE 0
    IN IF IsSmallEdge(diff, line)
       THEN [prediction |-> prediction, edge |-> edge, pick |-> "PASS",
             confidence |-> 50, ev |-> 0]
       ELSE [prediction |-> prediction, edge |-> edge,
             pick |-> IF diff > 0 THEN "OVER" ELSE "UNDER",
             confidence |-> Min(RoundDiv(50 * line + 200 * Abs(diff), line), 95),
             ev |-> RoundDiv(2500 * Abs(diff), line)]

\* generate_prediction(player, stat_type, line, player_avgs, models_data);
\* the models are loaded and never used
generate_prediction(player, stat_type, line, avgs) ==
    Decide(Baseline(player, stat_type, line, avgs), line)

\* predictions only for the props that get a pick
run_predictions_picks_only(batch) ==
    SelectSeq([k \in 1..Len(batch) |->
                  batch[k] @@ generate_prediction(batch[k].player, batch[k].stat_type,
                                                  batch[k].line, player_avgs)],
              LAMBDA p : p.pick # "PASS")

\* run_predictions(props): {**prop, **pred} for each prop, in order
run_predictions(batch) ==
    [k \in 1..Len(batch) |->
        batch[k] @@ generate_prediction(batch[k].player, batch[k].stat_type,
                                        batch[k].line, player_avgs)]

-----------------------------------------------------------------------------
(* DotaPredictionEngine.predict (src/app.py) *)

\* self.player_stats, in tenths
player_stats ==
    [p \in {"Crystallis", "Yuma", "Ame", "skiter", "Pure", "Watson", "flyfly", "33",
            "Topson"} |->
        CASE p = "Crystallis" -> [avg_kills |-> 52, avg_fantasy |-> 285, variance |-> 21]
          [] p = "Yuma" -> [avg_kills |-> 48, avg_fantasy |-> 263, variance |-> 18]
          [] p = "Ame" -> [avg_kills |-> 61, avg_fantasy |-> 312, variance |-> 23]
          [] p = "skiter" -> [avg_kills |-> 55, avg_fantasy |-> 297, variance |-> 19]
          [] p = "Pure" -> [avg_kills |-> 59, avg_fantasy |-> 301, variance |-> 20]
          [] p = "Watson" -> [avg_kills |-> 42, avg_fantasy |-> 248, variance |-> 17]
          [] p = "flyfly" -> [avg_kills |-> 46, avg_fantasy |-> 259, variance |-> 22]
          [] p = "33" -> [avg_kills |-> 44, avg_fantasy |-> 271, variance |-> 16]
          [] p = "Topson" -> [avg_kills |-> 57, avg_fantasy |-> 293, variance |-> 24]]

\* lines 128-143: the base of the prediction
EngineBase(player_name, stat_type, line) ==
    LET player_data == IF player_name \in DOMAIN player_stats THEN player_stats[player_name]
                       ELSE [avg_kills |-> 50, avg_fantasy |-> 280, variance |-> 20]
    IN IF Contains(stat_type, "Kill") THEN player_data.avg_kills
       ELSE IF Contains(stat_type, "Fantasy") THEN player_data.avg_fantasy
       ELSE line

\* lines 149-171: the decision on a prediction and a line, both in tenths:
\* confidence = min(75, 55 + |edge|), ev = (confidence - 52.38) / 52.38 * 100
EngineDecide(prediction, line) ==
    LET diff == prediction - line
        sign == IF diff < 0 THEN -1 ELSE 1
        edge == IF line > 0 THEN sign * RoundDiv(1000 * Abs(diff), line) ELSE 0
        small == IF line > 0 THEN 1000 * Abs(diff) < 30 * line ELSE TRUE
        capped == 55 * line + 100 * Abs(diff) >= 75 * line
        \* confidence as a fraction num / line
        num == IF capped THEN 75 * line ELSE 55 * line + 100 * Abs(diff)
    IN IF small
       THEN [prediction |-> prediction, edge |-> edge, pick |-> "PASS",
             confidence |-> 50, ev |-> 0]
       ELSE [prediction |-> prediction, edge |-> edge,
             pick |-> IF diff > 0 THEN "OVER" ELSE "UNDER",
             confidence |-> RoundDiv(num, line),
             ev |-> RoundDiv(1000 * (100 * num - 5238 * line), 5238 * line)]

\* predict(player_name, stat_type, line), adjustment being what
\* random.gauss(0, variance * 0.3) drew, in tenths
predict(player_name, stat_type, line, adjustment) ==
    EngineDecide(EngineBase(player_name, stat_type, line) + adjustment, line)

-----------------------------------------------------------------------------
(* Store: save_props_and_predictions on DB_PATH *)

NoTxn == [open |-> FALSE, dota_props |-> <<>>, predictions |-> <<>>]
NoSnapshot == [dota_props |-> <<>>, predictions |-> <<>>]
NoPost == [attempted |-> FALSE, picks |-> <<>>, message |-> None, response |-> None,
           returned |-> FALSE]

\* the columns the INSERT into dota_props binds (scraped_at, the timestamp of
\* the call, and the rowid are left out: nothing below reads them)
PropRow(prop) ==
    [player |-> prop.player, team |-> prop.team, opponent |-> prop.opponent,
     match_title |-> prop.match_title, stat_type |-> prop.stat_type,
     line |-> prop.line, over_odds |-> prop.over_odds, under_odds |-> prop.under_odds]

\* the columns the INSERT into predictions binds (created_at left out)
PredRow(pred) ==
    [player |-> pred.player, stat_type |-> pred.stat_type, line |-> pred.line,
     prediction |-> pred.prediction, edge |-> pred.edge,
     pick_direction |-> pred.pick, confidence |-> pred.confidence, ev |-> pred.ev]

\* a connection in autocommit mode, as connect(..., isolation_level=None) gives
IsolationAutocommit == "autocommit"

\* sqlite3.connect(DB_PATH): the default isolation level, under which the
\* first DELETE / INSERT opens a transaction that lasts until commit()
isolation_level == "deferred"

\* a DELETE that removes nothing
DeleteNothing(table) == table

\* DELETE FROM <table>
DeleteFrom(table) == <<>>

\* an insert that keeps the row already there: INSERT OR IGNORE
InsertOrKeep(table, row) ==
    IF \E k \in 1..Len(table) : Key(table[k]) = Key(row) THEN table ELSE Append(table, row)

\* INSERT OR REPLACE under UNIQUE(player, stat_type, line): the row of the
\* same key is deleted and the new row gets a fresh rowid
InsertOrReplace(table, row) ==
    Append(SelectSeq(table, LAMBDA r : Key(r) # Key(row)), row)

\* the database as another connection reads it
ReadSnapshot == [dota_props |-> dota_props, predictions |-> predictions]

\* the tables as the writer connection sees them
Working == IF txn.open THEN [dota_props |-> txn.dota_props, predictions |-> txn.predictions]
           ELSE ReadSnapshot

\* cursor.execute of a statement that leaves the writer's tables as `after`
Execute(after) ==
    IF isolation_level = "autocommit"
    THEN /\ dota_props' = after.dota_props
         /\ predictions' = after.predictions
         /\ txn' = txn
    ELSE /\ txn' = [open |-> TRUE, dota_props |-> after.dota_props,
                    predictions |-> after.predictions]
         /\ UNCHANGED <<dota_props, predictions>>

\* a connection that commits what is pending when it goes away
CommitOnClose(db, t) ==
    IF t.open THEN [dota_props |-> t.dota_props, predictions |-> t.predictions] ELSE db

\* the database after a connection with transaction t is dropped without
\* commit(): the pending changes are rolled back
AfterAbandon(db, t) == db

SavePcs == {"save_delete_props", "save_delete_predictions", "save_insert_props",
            "save_insert_predictions", "save_commit"}

\* line 422
SaveDeleteProps ==
    /\ pc = "save_delete_props"
    /\ Execute([Working EXCEPT !.dota_props = DeleteFrom(@)])
    /\ pc' = "save_delete_predictions"
    /\ UNCHANGED <<prop_history, posted_slips, props, preds, new_props, changed_props,
                   webhook, check_count, reader_state, snap0, idx,
                   fetchVars, predVars, dashVars>>

\* line 423; the loop of lines 427-435 is entered, or skipped on no props
SaveDeletePredictions ==
    /\ pc = "save_delete_predictions"
    /\ Execute([Working EXCEPT !.predictions = DeleteFrom(@)])
    /\ pc' = IF props # <<>> THEN "save_insert_props"
             ELSE IF preds # <<>> THEN "save_insert_predictions" ELSE "save_commit"
    /\ idx' = 1
    /\ UNCHANGED <<prop_history, posted_slips, props, preds, new_props, changed_props,
                   webhook, check_count, reader_state, snap0,
                   fetchVars, predVars, dashVars>>

\* lines 427-435, one pass
SaveInsertProp ==
    /\ pc = "save_insert_props"
    /\ Execute([Working EXCEPT !.dota_props = InsertOrReplace(@, PropRow(props[idx]))])
    /\ IF idx < Len(props)
       THEN pc' = pc /\ idx' = idx + 1
       ELSE /\ pc' = IF preds # <<>> THEN "save_insert_predictions" ELSE "save_commit"
            /\ idx' = 1
    /\ UNCHANGED <<prop_history, posted_slips, props, preds, new_props, changed_props,
                   webhook, check_count, reader_state, snap0,
                   fetchVars, predVars, dashVars>>

\* lines 437-446, one pass
SaveInsertPrediction ==
    /\ pc = "save_insert_predictions"
    /\ Execute([Working EXCEPT !.predictions = InsertOrReplace(@, PredRow(preds[idx]))])
    /\ IF idx < Len(preds)
       THEN pc' = pc /\ idx' = idx + 1
       ELSE pc' = "save_commit" /\ idx' = 1
    /\ UNCHANGED <<prop_history, posted_slips, props, preds, new_props, changed_props,
                   webhook, check_count, reader_state, snap0,
                   fetchVars, predVars, dashVars>>

\* lines 448-449: commit() publishes the transaction, close()
SaveCommit ==
    /\ pc = "save_commit"
    /\ dota_props' = Working.dota_props
    /\ predictions' = Working.predictions
    /\ txn' = NoTxn
    /\ pc' = "saved"
    /\ UNCHANGED <<prop_history, posted_slips, props, preds, new_props, changed_props,
                   webhook, check_count, reader_state, snap0, idx,
                   fetchVars, predVars, dashVars>>

\* a statement of save_props_and_predictions raises (sqlite3.Error: database
\* locked, disk full, ...); no caller catches it, so the exception ends the
\* process and the connection goes away uncommitted
SaveRaise ==
    /\ pc \in SavePcs
    /\ LET db == AfterAbandon(ReadSnapshot, txn)
       IN /\ dota_props' = db.dota_props
          /\ predictions' = db.predictions
    /\ txn' = NoTxn
    /\ pc' = "failed"
    /\ UNCHANGED <<prop_history, posted_slips, props, preds, new_props, changed_props,
                   webhook, check_count, reader_state, snap0, idx,
                   fetchVars, predVars, dashVars>>

\* another connection reads both tables in one SELECT (the join of
\* load_predictions): it sees the committed database of that moment
load_predictions ==
    /\ reader_state' = ReadSnapshot
    /\ UNCHANGED <<dota_props, predictions, prop_history, posted_slips, txn, pc,
                   props, preds, new_props, changed_props, webhook, check_count,
                   snap0, idx,
                   fetchVars, predVars, dashVars>>

-----------------------------------------------------------------------------
(* AlertDispatcher: post_to_discord *)

\* line 492: the picks that qualify
IsGoodPick(p) == p.pick # "PASS" /\ Abs(p.edge) >= MIN_EDGE

\* line 498: sort by |edge|, largest first; equal edges keep their order
RECURSIVE SortByEdge(_)
SortByEdge(s) ==
    IF s = <<>> THEN <<>>
    ELSE LET rest == SortByEdge(Tail(s))
             h == Head(s)
             before == SelectSeq(rest, LAMBDA q : Abs(q.edge) > Abs(h.edge))
             after == SelectSeq(rest, LAMBDA q : Abs(q.edge) <= Abs(h.edge))
         IN before \o <<h>> \o after

\* good_picks of post_to_discord(predictions), after the sort
GoodPicks(predictions_) == SortByEdge(SelectSeq(predictions_, IsGoodPick))

\* line 502: good_picks[:10]
TopK == 10

\* a message that lists every pick
DescriptionAll(good_picks) ==
    [total |-> Len(good_picks), listed |-> good_picks,
     more |-> IF Len(good_picks) > TopK THEN <<Len(good_picks) - TopK>> ELSE <<>>]

\* lines 500-513: the description: the header with len(good_picks), the first
\* ten picks, and the line "...and k more picks" when there are more than ten
Description(good_picks) ==
    [total |-> Len(good_picks),
     listed |-> SubSeq(good_picks, 1, Min(Len(good_picks), TopK)),
     more |-> IF Len(good_picks) > TopK THEN <<Len(good_picks) - TopK>> ELSE <<>>]

\* what requests.post and raise_for_status do (lines 529-530): a 2xx response,
\* another status (raise_for_status raises HTTPError), or no response at all
\* (requests.post raises ConnectionError or Timeout)
WebhookResponses == {"2xx", "non_2xx", "network_error"}

\* a dispatcher that posts its message whatever the picks are
post_to_discord_unguarded(predictions_, response) ==
    [attempted |-> TRUE, picks |-> GoodPicks(predictions_),
     message |-> Description(GoodPicks(predictions_)),
     response |-> response, returned |-> (response = "2xx")]

\* post_to_discord(predictions): no request and False when no pick qualifies
\* (lines 494-496), else one request with the description (line 529), True
\* after a 2xx response and False after anything else (lines 528-535)
post_to_discord(predictions_, response) ==
    IF GoodPicks(predictions_) = <<>> THEN NoPost
    ELSE [attempted |-> TRUE, picks |-> GoodPicks(predictions_),
          message |-> Description(GoodPicks(predictions_)),
          response |-> response, returned |-> (response = "2xx")]

-----------------------------------------------------------------------------
(* Orchestrator: monitor_loop *)

\* an entry of over_under_lines as the feed sends it: the match in the title,
\* the player behind an appearance, the value as a text
RawLine(title, stat, value, appearance_id, options) ==
    [type |-> "dict", stat_value |-> PyStr(value),
     over_under |-> [type |-> "dict", title |-> PyStr(title),
                     appearance_stat |-> [type |-> "dict", stat |-> PyStr(stat),
                                          appearance_id |-> PyStr(appearance_id)]],
     options |-> PyList(options)]

\* a feed document of the given entries: appearance a1 is of player p1
\* (ana), a2 of p2 (Mind_Control)
FeedDoc(lines) ==
    [type |-> "dict", over_under_lines |-> PyList(lines),
     appearances |-> PyList(<<
        [type |-> "dict", id |-> PyStr("a1"), player_id |-> PyStr("p1")],
        [type |-> "dict", id |-> PyStr("a2"), player_id |-> PyStr("p2")]>>),
     players |-> PyList(<<
        [type |-> "dict", id |-> PyStr("p1"), first_name |-> PyStr("ana"),
         last_name |-> PyStr("")],
        [type |-> "dict", id |-> PyStr("p2"), first_name |-> PyStr("Mind_Control"),
         last_name |-> PyStr("")]>>)]

\* a document whose appearances hold an entry without 'id'
BrokenDoc ==
    [type |-> "dict", over_under_lines |-> PyList(<<>>),
     appearances |-> PyList(<<[type |-> "dict", player_id |-> PyStr("p1")]>>)]

\* the documents the feed holds in monitor mode: a pick (ana 5.5, edge +9.1 %),
\* a PASS on a moved line of the same player, a player with no averages
MonitorDocs ==
    {FeedDoc(ls) : ls \in ListsOver(
        { RawLine("OG vs Tundra", "kills", "5.5", "a1", <<>>),
            RawLine("OG vs Tundra", "kills", "6.0", "a1", <<>>),
            RawLine("OG vs Tundra", "kills", "5.5", "a2", <<>>) })} \cup {BrokenDoc}

\* what a URL can answer in monitor mode: no answer, an error status with a
\* body, a JSON array, a document
MonitorResponses ==
    {Timeout,
     Response(500, FeedDoc(<<RawLine("OG vs Tundra", "kills", "5.5", "a1", <<>>)>>)),
     Response(200, PyList(<<>>))}
        \cup {Response(200, d) : d \in MonitorDocs}

\* parse_dota_props of the documents the orchestrator is fed, worked out once
ParsedDocs == [d \in MonitorDocs |-> parse_dota_props(d)]

\* line 630 / line 554: parse_dota_props(data)
Parsed(d) == IF d \in MonitorDocs THEN ParsedDocs[d] ELSE parse_dota_props(d)

\* a loop that posts in every cycle
AlertGateAlways(new, changed) == TRUE

\* line 657: if new_props or changed_props
AlertGate(new, changed) == new # <<>> \/ changed # <<>>

\* lines 617-623: check_count += 1 and fetch_underdog_data() is called; what
\* the locals hold of the cycle before is read no more
MonitorTick ==
    /\ pc = "idle"
    /\ check_count < MaxChecks
    /\ check_count' = check_count + 1
    /\ FetchEnter
    /\ data' = None
    /\ props' = <<>>
    /\ preds' = <<>>
    /\ new_props' = <<>>
    /\ changed_props' = <<>>
    /\ webhook' = NoPost
    /\ UNCHANGED <<dota_props, predictions, prop_history, posted_slips, txn,
                   reader_state, snap0, idx, predVars, dashVars>>

\* lines 625-628: if not data - the fetch returned None (or an empty
\* document): sleep and continue
MonitorFetchFail ==
    /\ pc = "fetched"
    /\ ~Truthy(data)
    /\ pc' = "idle"
    /\ UNCHANGED <<dota_props, predictions, prop_history, posted_slips, txn, props,
                   preds, new_props, changed_props, webhook, check_count,
                   reader_state, snap0, idx, fetchVars, predVars, dashVars>>

\* line 630: parse_dota_props(data) raises; nothing catches it
MonitorParseRaise ==
    /\ pc = "fetched"
    /\ Truthy(data)
    /\ ~Parsed(data).ok
    /\ pc' = "failed"
    /\ UNCHANGED <<dota_props, predictions, prop_history, posted_slips, txn, props,
                   preds, new_props, changed_props, webhook, check_count,
                   reader_state, snap0, idx, fetchVars, predVars, dashVars>>

\* lines 630-637: parse_dota_props yields no props: sleep and continue
MonitorNoProps ==
    /\ pc = "fetched"
    /\ Truthy(data)
    /\ Parsed(data).ok
    /\ Parsed(data).props = <<>>
    /\ props' = <<>>
    /\ pc' = "idle"
    /\ requests_log' = <<>>
    /\ UNCHANGED <<dota_props, predictions, prop_history, posted_slips, txn,
                   preds, new_props, changed_props, webhook, check_count,
                   reader_state, snap0, idx, data, url, predVars, dashVars>>

\* lines 630-652: parse_dota_props yields props; detect_changes and
\* run_predictions run and save_props_and_predictions is entered
MonitorCycle ==
    /\ pc = "fetched"
    /\ Truthy(data)
    /\ Parsed(data).ok
    /\ Parsed(data).props # <<>>
    /\ props' = Parsed(data).props
    /\ detect_changes(Parsed(data).props)
    /\ preds' = run_predictions(Parsed(data).props)
    /\ snap0' = ReadSnapshot
    /\ pc' = "save_delete_props"
    /\ idx' = 1
    /\ requests_log' = <<>>
    /\ UNCHANGED <<dota_props, predictions, posted_slips, txn, webhook, check_count,
                   reader_state, data, url, predVars, dashVars>>

\* a monitor that dies of a request that failed
MonitorPostPropagates ==
    /\ pc = "saved"
    /\ \E response \in WebhookResponses :
          /\ webhook' = IF AlertGate(new_props, changed_props)
                        THEN post_to_discord(preds, response) ELSE NoPost
          /\ pc' = IF webhook'.attempted /\ response # "2xx" THEN "failed" ELSE "idle"
    /\ snap0' = NoSnapshot
    /\ UNCHANGED <<dota_props, predictions, prop_history, posted_slips, txn, props,
                   preds, new_props, changed_props, check_count, reader_state, idx,
                   fetchVars, predVars, dashVars>>

\* lines 654-662: the gate, post_to_discord, sleep
MonitorPost ==
    /\ pc = "saved"
    /\ \E response \in WebhookResponses :
          webhook' = IF AlertGate(new_props, changed_props)
                     THEN post_to_discord(preds, response) ELSE NoPost
    /\ pc' = "idle"
    /\ snap0' = NoSnapshot
    /\ UNCHANGED <<dota_props, predictions, prop_history, posted_slips, txn, props,
                   preds, new_props, changed_props, check_count, reader_state, idx,
                   fetchVars, predVars, dashVars>>

\* the monitor is started again after it died: setup_database, check_count = 0
MonitorRestart ==
    /\ pc = "failed"
    /\ pc' = "idle"
    /\ check_count' = 0
    /\ props' = <<>>
    /\ preds' = <<>>
    /\ new_props' = <<>>
    /\ changed_props' = <<>>
    /\ webhook' = NoPost
    /\ snap0' = NoSnapshot
    /\ idx' = 1
    /\ data' = None
    /\ url' = 1
    /\ requests_log' = <<>>
    /\ UNCHANGED <<dota_props, predictions, prop_history, posted_slips, txn,
                   reader_state, predVars, dashVars>>

-----------------------------------------------------------------------------
(* Orchestrator: run_once *)

\* python dota_live_system.py: lines 544-547, setup_database finds its tables
\* and fetch_underdog_data() is called
OnceStart ==
    /\ pc \in {"idle", "done", "failed"}
    /\ FetchEnter
    /\ props' = <<>>
    /\ preds' = <<>>
    /\ webhook' = NoPost
    /\ snap0' = NoSnapshot
    /\ idx' = 1
    /\ data' = None
    /\ UNCHANGED <<dota_props, predictions, prop_history, posted_slips, txn,
                   new_props, changed_props, check_count, reader_state, predVars, dashVars>>

\* lines 549-551: if not data: return [], []
OnceFetchFail ==
    /\ pc = "fetched"
    /\ ~Truthy(data)
    /\ pc' = "done"
    /\ UNCHANGED <<dota_props, predictions, prop_history, posted_slips, txn, props,
                   preds, new_props, changed_props, webhook, check_count,
                   reader_state, snap0, idx, fetchVars, predVars, dashVars>>

\* line 554: parse_dota_props(data) raises
OnceParseRaise ==
    /\ pc = "fetched"
    /\ Truthy(data)
    /\ ~Parsed(data).ok
    /\ pc' = "failed"
    /\ UNCHANGED <<dota_props, predictions, prop_history, posted_slips, txn, props,
                   preds, new_props, changed_props, webhook, check_count,
                   reader_state, snap0, idx, fetchVars, predVars, dashVars>>

\* lines 554-560: no props: return [], []
OnceNoProps ==
    /\ pc = "fetched"
    /\ Truthy(data)
    /\ Parsed(data).ok
    /\ Parsed(data).props = <<>>
    /\ pc' = "done"
    /\ UNCHANGED <<dota_props, predictions, prop_history, posted_slips, txn, props,
                   preds, new_props, changed_props, webhook, check_count,
                   reader_state, snap0, idx, fetchVars, predVars, dashVars>>

\* lines 554-573: parse_dota_props yields props, run_predictions runs and
\* save_props_and_predictions is entered
OnceCycle ==
    /\ pc = "fetched"
    /\ Truthy(data)
    /\ Parsed(data).ok
    /\ Parsed(data).props # <<>>
    /\ props' = Parsed(data).props
    /\ preds' = run_predictions(Parsed(data).props)
    /\ snap0' = ReadSnapshot
    /\ pc' = "save_delete_props"
    /\ idx' = 1
    /\ UNCHANGED <<dota_props, predictions, prop_history, posted_slips, txn,
                   new_props, changed_props, webhook, check_count, reader_state,
                   fetchVars, predVars, dashVars>>

\* a run that keeps the ledger: it posts only a batch of picks that is not in
\* posted_slips, and records it there
OncePostLedger ==
    /\ pc = "saved"
    /\ \E response \in WebhookResponses :
          webhook' = IF Keys(GoodPicks(preds)) \in posted_slips THEN NoPost
                     ELSE post_to_discord(preds, response)
    /\ posted_slips' = IF webhook'.attempted
                       THEN posted_slips \cup {Keys(GoodPicks(preds))}
                       ELSE posted_slips
    /\ pc' = "done"
    /\ UNCHANGED <<dota_props, predictions, prop_history, txn, props,
                   preds, new_props, changed_props, check_count, reader_state,
                   snap0, idx, fetchVars, predVars, dashVars>>

\* lines 576-597: post_to_discord(predictions), return
OncePost ==
    /\ pc = "saved"
    /\ \E response \in WebhookResponses : webhook' = post_to_discord(preds, response)
    /\ pc' = "done"
    /\ UNCHANGED <<dota_props, predictions, prop_history, posted_slips, txn, props,
                   preds, new_props, changed_props, check_count, reader_state,
                   snap0, idx, fetchVars, predVars, dashVars>>

NoCall == [player |-> "", stat_type |-> "", line |-> 0, avgs |-> <<>>]
NoResult == [pick |-> ""]

-----------------------------------------------------------------------------
(* Initial state: the databases as setup_database creates them *)

Init ==
    /\ dota_props = <<>>
    /\ predictions = <<>>
    /\ prop_history = <<>>
    /\ posted_slips = {}
    /\ txn = NoTxn
    /\ pc = "idle"
    /\ props = <<>>
    /\ preds = <<>>
    /\ new_props = <<>>
    /\ changed_props = <<>>
    /\ webhook = NoPost
    /\ check_count = 0
    /\ reader_state = NoSnapshot
    /\ snap0 = NoSnapshot
    /\ idx = 1
    /\ data = None
    /\ url = 1
    /\ requests_log = <<>>
    /\ pred_call = NoCall
    /\ pred_result = NoResult
    /\ is_updating = FALSE
    /\ tasks = [t \in 1..(MaxTriggers + 1) |-> IF t = 1 THEN "sleeping" ELSE "none"]
    /\ current = 0
    /\ arrived = 0

-----------------------------------------------------------------------------
(* The monitor: python dota_live_system.py --monitor *)

Next ==
    \/ MonitorTick
    \/ \E r \in MonitorResponses : FetchTry(r)
    \/ MonitorFetchFail
    \/ MonitorParseRaise
    \/ MonitorNoProps
    \/ MonitorCycle
    \/ SaveDeleteProps
    \/ SaveDeletePredictions
    \/ SaveInsertProp
    \/ SaveInsertPrediction
    \/ SaveCommit
    \/ SaveRaise
    \/ MonitorPost
    \/ MonitorRestart

Spec == Init /\ [][Next]_vars

-----------------------------------------------------------------------------
(* Single runs: python dota_live_system.py, again and again *)

NextOnce ==
    \/ OnceStart
    \* what a URL can answer to a single run
    \/ \E r \in {Timeout, Response(200, PyList(<<>>))}
                  \cup {Response(200, d) : d \in MonitorDocs} : FetchTry(r)
    \/ OnceFetchFail
    \/ OnceParseRaise
    \/ OnceNoProps
    \/ OnceCycle
    \/ SaveDeleteProps
    \/ SaveDeletePredictions
    \/ SaveInsertProp
    \/ SaveInsertPrediction
    \/ SaveCommit
    \/ SaveRaise
    \/ OncePost

SpecOnce == Init /\ [][NextOnce]_vars

-----------------------------------------------------------------------------
(* The change tracker alone: successive detect_changes calls *)

TrackerCall(batch) ==
    /\ props' = batch
    /\ detect_changes(batch)
    /\ UNCHANGED <<dota_props, predictions, posted_slips, txn, pc, preds,
                   webhook, check_count, reader_state, snap0, idx,
                   fetchVars, predVars, dashVars>>

\* the props the change tracker is fed: three lines of one (player, stat),
\* one of them also after a team reassignment
NextTracker ==
    \E batch \in ListsOver({MkProp("ana", "Kills", 55, MetaOG),
                             MkProp("ana", "Kills", 60, MetaOG),
                             MkProp("ana", "Kills", 65, MetaOG),
                             MkProp("ana", "Kills", 55, MetaLiquid)}) : TrackerCall(batch)

SpecTracker == Init /\ [][NextTracker]_vars

-----------------------------------------------------------------------------
(* The store alone: successive save_props_and_predictions calls, a reader *)

\* save_props_and_predictions(P, run_predictions(P)) is entered (line 419)
StoreCall(P) ==
    /\ pc \in {"idle", "saved"}
    /\ props' = P
    /\ preds' = run_predictions(P)
    /\ snap0' = ReadSnapshot
    /\ pc' = "save_delete_props"
    /\ idx' = 1
    /\ UNCHANGED <<dota_props, predictions, prop_history, posted_slips, txn,
                   new_props, changed_props, webhook, check_count, reader_state,
                   fetchVars, predVars, dashVars>>

\* the program is started again after it died
Restart ==
    /\ pc = "failed"
    /\ pc' = "idle"
    /\ UNCHANGED <<dota_props, predictions, prop_history, posted_slips, txn, props,
                   preds, new_props, changed_props, webhook, check_count,
                   reader_state, snap0, idx,
                   fetchVars, predVars, dashVars>>

NextStore ==
    \* the props the store is given: one key under two teams, and a second key
    \/ \E P \in ListsOver({MkProp("ana", "Kills", 55, MetaOG),
                             MkProp("ana", "Kills", 55, MetaLiquid),
                             MkProp("Mind_Control", "Kills", 55, MetaOG)}) : StoreCall(P)
    \/ SaveDeleteProps
    \/ SaveDeletePredictions
    \/ SaveInsertProp
    \/ SaveInsertPrediction
    \/ SaveCommit
    \/ SaveRaise
    \/ Restart
    \/ load_predictions

SpecStore == Init /\ [][NextStore]_vars

-----------------------------------------------------------------------------
(* The normalizer alone: parse_dota_props on one document *)

\* the options an entry can hold: inside, at the edges of and outside the
\* accepted payout range, with and without price, and one that is no dict
Option(choice, price, payout) ==
    [type |-> "dict", choice |-> PyStr(choice), american_price |-> price,
     payout_multiplier |-> payout]

FeedOptions ==
    { Option("Higher", PyInt(-120), PyFloat(105)),
      Option("lower", PyStr("+105"), PyFloat(90)),
      Option("over", PyInt(-150), PyFloat(200)),
      Option("under", PyInt(-130), PyInt(0)),
      Option("higher", PyInt(0), PyFloat(110)),
      [type |-> "dict", choice |-> PyStr("Lower"), american_price |-> PyFloat(-11500)],
      [type |-> "dict", choice |-> PyStr("push"), american_price |-> PyInt(-200)],
      PyStr("higher") }

\* well-formed entries: props, and entries the filters pass over
GoodEntries ==
    { RawLine("OG vs Tundra", "kills", "5.5", "a1", <<>>),
      RawLine("Dota: Mind_Control Kills", "kills_in_game_1", "6.0", "a9", <<>>),
      RawLine("Team Liquid @ Team Secret", "fantasy_points", "30.5", "a2", <<>>),
      RawLine("Lakers vs Celtics", "points", "25.5", "a1", <<>>),
      RawLine("OG vs Tundra", "kills", "0", "a1", <<>>),
      RawLine("Dota: Kills", "kills", "4.5", "a9", <<>>),
      RawLine("OG vs Tundra", "assists", "nan", "a1", <<>>),
      RawLine("OG vs Tundra", "kills", "5.5", "a3", <<>>) }

\* malformed entries: each makes the body of the loop raise
MalformedEntries ==
    { None,
      PyStr("line"),
      [type |-> "dict", stat_value |-> PyStr("5.5"), over_under |-> None],
      [type |-> "dict", stat_value |-> PyStr("5.5"),
       over_under |-> [type |-> "dict", title |-> PyInt(7)]],
      RawLine("OG vs Tundra", "kills", "five", "a1", <<>>),
      [type |-> "dict", stat_value |-> PyStr("5.5"),
       over_under |-> [type |-> "dict", title |-> PyStr("OG vs Tundra"),
                       appearance_stat |-> [type |-> "dict", stat |-> PyStr("kills"),
                                            appearance_id |-> PyList(<<PyInt(1)>>)]]],
      [type |-> "dict", stat_value |-> PyStr("5.5"), options |-> None,
       over_under |-> [type |-> "dict", title |-> PyStr("Dota: ana Kills"),
                       appearance_stat |-> [type |-> "dict", stat |-> PyStr("kills")]]] }

\* documents of well-formed and malformed entries; documents of one entry
\* with options; documents whose collections are malformed; values that are
\* no documents
ParseDocs ==
    {FeedDoc(ls) : ls \in ListsOver(GoodEntries \cup MalformedEntries)}
        \cup {FeedDoc(<<RawLine("OG vs Tundra", "kills", "5.5", "a1", opts)>>) :
                 opts \in ListsOver(FeedOptions)}
        \cup { BrokenDoc,
               [type |-> "dict", over_under_lines |-> PyList(<<>>), appearances |-> None],
               [type |-> "dict", over_under_lines |-> PyList(<<>>),
                players |-> PyList(<<PyStr("p1")>>)],
               [type |-> "dict", over_under_lines |-> None],
               [type |-> "dict", over_under_lines |-> PyStr("ab")],
               PyList(<<EmptyDict>>), PyStr("error"), PyList(<<>>), EmptyDict, None }

\* parse_dota_props(data) returns
ParseReturn ==
    /\ pc = "fetched"
    /\ parse_dota_props(data).ok
    /\ props' = parse_dota_props(data).props
    /\ pc' = "parsed"
    /\ UNCHANGED <<dota_props, predictions, prop_history, posted_slips, txn, preds,
                   new_props, changed_props, webhook, check_count, reader_state,
                   snap0, idx, fetchVars, predVars, dashVars>>

\* parse_dota_props(data) raises
ParseRaise ==
    /\ pc = "fetched"
    /\ ~parse_dota_props(data).ok
    /\ pc' = "failed"
    /\ UNCHANGED <<dota_props, predictions, prop_history, posted_slips, txn, props,
                   preds, new_props, changed_props, webhook, check_count,
                   reader_state, snap0, idx, fetchVars, predVars, dashVars>>

InitParse ==
    /\ dota_props = <<>>
    /\ predictions = <<>>
    /\ prop_history = <<>>
    /\ posted_slips = {}
    /\ txn = NoTxn
    /\ pc = "fetched"
    /\ props = <<>>
    /\ preds = <<>>
    /\ new_props = <<>>
    /\ changed_props = <<>>
    /\ webhook = NoPost
    /\ check_count = 0
    /\ reader_state = NoSnapshot
    /\ snap0 = NoSnapshot
    /\ idx = 1
    /\ data \in ParseDocs
    /\ url = 1
    /\ requests_log = <<>>
    /\ pred_call = NoCall
    /\ pred_result = NoResult
    /\ is_updating = FALSE
    /\ tasks = [t \in 1..(MaxTriggers + 1) |-> IF t = 1 THEN "sleeping" ELSE "none"]
    /\ current = 0
    /\ arrived = 0

NextParse == ParseReturn \/ ParseRaise

SpecParse == InitParse /\ [][NextParse]_vars

-----------------------------------------------------------------------------
(* The feed client alone: successive fetch_underdog_data calls *)

\* what a URL can answer: no answer, error statuses with and without a JSON
\* body, a 200 whose text is no JSON, a 200 whose JSON is no document, and
\* documents
FetchResponses ==
    { Timeout,
      Response(500, FeedDoc(<<RawLine("OG vs Tundra", "kills", "5.5", "a1", <<>>)>>)),
      Response(404, NotJson),
      Response(429, EmptyDict),
      Response(503, None),
      Response(200, NotJson),
      Response(200, PyList(<<>>)),
      Response(200, None),
      Response(200, PyStr("maintenance")),
      Response(200, [type |-> "dict", over_under_lines |-> None]),
      Response(200, EmptyDict),
      Response(200, FeedDoc(<<>>)),
      Response(200, FeedDoc(<<RawLine("OG vs Tundra", "kills", "5.5", "a1", <<>>)>>)),
      Response(200, FeedDoc(<<RawLine("OG vs Tundra", "kills", "6.0", "a1", <<>>)>>)),
      Response(200, BrokenDoc) }

\* data = fetch_underdog_data() is called
FetchCall ==
    /\ pc \in {"idle", "fetched", "failed"}
    /\ FetchEnter
    /\ data' = None
    /\ UNCHANGED <<dota_props, predictions, prop_history, posted_slips, txn, props,
                   preds, new_props, changed_props, webhook, check_count,
                   reader_state, snap0, idx, predVars, dashVars>>

NextFetch ==
    \/ FetchCall
    \/ \E r \in FetchResponses : FetchTry(r)

SpecFetch == Init /\ [][NextFetch]_vars

-----------------------------------------------------------------------------
(* The decision policy alone: one prediction call *)

\* the largest line a prediction is asked for, in tenths
MaxLine == 100

\* the calls: lines from below zero to MaxLine; for a player whose averages
\* are all k, baselines up to a third above, and for a player the averages
\* do not hold, every stat type of DOTA_STAT_MAP
PredCalls ==
    {[player |-> "ana", stat_type |-> "Kills", line |-> l,
      avgs |-> [p \in {"ana"} |->
                  [avg_kills |-> k, last_5_kills |-> k, last_10_kills |-> k,
                   avg_fantasy |-> k, last_5_fantasy |-> k, last_10_fantasy |-> k]]] :
        l \in {-5} \cup 0..MaxLine, k \in 0..(MaxLine + MaxLine \div 3)}
    \cup
    {[player |-> "Mind_Control", stat_type |-> DOTA_STAT_MAP[n][2], line |-> l,
      avgs |-> player_avgs] :
        l \in {-5} \cup 0..MaxLine, n \in 1..Len(DOTA_STAT_MAP)}

\* generate_prediction(player, stat_type, line, player_avgs, models_data)
GeneratePrediction ==
    /\ pc = "idle"
    /\ pred_result' = generate_prediction(pred_call.player, pred_call.stat_type,
                                          pred_call.line, pred_call.avgs)
    /\ pc' = "predicted"
    /\ UNCHANGED <<dota_props, predictions, prop_history, posted_slips, txn, props,
                   preds, new_props, changed_props, webhook, check_count,
                   reader_state, snap0, idx, fetchVars, pred_call,
                   dashVars>>

\* engine.predict(player, stat_type, line)
EnginePredict(adjustment) ==
    /\ pc = "idle"
    /\ pred_result' = predict(pred_call.player, pred_call.stat_type, pred_call.line,
                              adjustment)
    /\ pc' = "engine_predicted"
    /\ UNCHANGED <<dota_props, predictions, prop_history, posted_slips, txn, props,
                   preds, new_props, changed_props, webhook, check_count,
                   reader_state, snap0, idx, fetchVars, pred_call,
                   dashVars>>

\* post_to_discord(predictions) on the prediction of the call and the
\* prediction run_predictions makes for ana Kills 5.5
PostPrediction ==
    /\ pc = "predicted"
    /\ preds' = <<MkProp(pred_call.player, pred_call.stat_type, pred_call.line, MetaOG)
                      @@ pred_result>>
                 \o run_predictions(<<MkProp("ana", "Kills", 55, MetaOG)>>)
    /\ \E response \in WebhookResponses : webhook' = post_to_discord(preds', response)
    /\ pc' = "posted"
    /\ UNCHANGED <<dota_props, predictions, prop_history, posted_slips, txn, props,
                   new_props, changed_props, check_count, reader_state, snap0, idx,
                   fetchVars, predVars, dashVars>>

InitPredict ==
    /\ dota_props = <<>>
    /\ predictions = <<>>
    /\ prop_history = <<>>
    /\ posted_slips = {}
    /\ txn = NoTxn
    /\ pc = "idle"
    /\ props = <<>>
    /\ preds = <<>>
    /\ new_props = <<>>
    /\ changed_props = <<>>
    /\ webhook = NoPost
    /\ check_count = 0
    /\ reader_state = NoSnapshot
    /\ snap0 = NoSnapshot
    /\ idx = 1
    /\ data = None
    /\ url = 1
    /\ requests_log = <<>>
    /\ pred_call \in PredCalls
    /\ pred_result = NoResult
    /\ is_updating = FALSE
    /\ tasks = [t \in 1..(MaxTriggers + 1) |-> IF t = 1 THEN "sleeping" ELSE "none"]
    /\ current = 0
    /\ arrived = 0

NextPredict ==
    \/ GeneratePrediction
    \/ PostPrediction
    \* what random.gauss can draw, in tenths
    \/ \E adjustment \in {-20, -2, 0, 3, 25} : EnginePredict(adjustment)

SpecPredict == InitPredict /\ [][NextPredict]_vars

-----------------------------------------------------------------------------
(* post_to_discord on batches of up to MaxPicks predictions *)

MaxPicks == 14

\* the predictions run_predictions makes for n props of ana, drawn in a cycle
\* from: Kills 5.0 (+20.0 %), 6.5 (-7.7 %), 5.8 (+3.4 %), 5.9 (+1.7 %, PASS),
\* 5.5 (+9.1 %), 6.2 (-3.2 %) and Fantasy Points 15.5 (+3.2 %)
PostBatches ==
    LET pool == <<<<"Kills", 50>>, <<"Kills", 65>>, <<"Kills", 58>>, <<"Kills", 59>>,
                  <<"Kills", 55>>, <<"Kills", 62>>, <<"Fantasy Points", 155>>>>
        at(j) == pool[(j % Len(pool)) + 1]
    IN {run_predictions([k \in 1..n |->
                            MkProp("ana", at(off + k * step)[1], at(off + k * step)[2],
                                   MetaOG)]) :
          n \in 0..MaxPicks, off \in 0..(Len(pool) - 1), step \in 0..(Len(pool) - 1)}

\* one call post_to_discord(predictions)
PostToDiscord ==
    /\ pc = "idle"
    /\ \E response \in WebhookResponses : webhook' = post_to_discord(preds, response)
    /\ pc' = "posted"
    /\ UNCHANGED <<dota_props, predictions, prop_history, posted_slips, txn, props,
                   preds, new_props, changed_props, check_count, reader_state,
                   snap0, idx, fetchVars, predVars, dashVars>>

InitPost ==
    /\ dota_props = <<>>
    /\ predictions = <<>>
    /\ prop_history = <<>>
    /\ posted_slips = {}
    /\ txn = NoTxn
    /\ pc = "idle"
    /\ props = <<>>
    /\ preds \in PostBatches
    /\ new_props = <<>>
    /\ changed_props = <<>>
    /\ webhook = NoPost
    /\ check_count = 0
    /\ reader_state = NoSnapshot
    /\ snap0 = NoSnapshot
    /\ idx = 1
    /\ data = None
    /\ url = 1
    /\ requests_log = <<>>
    /\ pred_call = NoCall
    /\ pred_result = NoResult
    /\ is_updating = FALSE
    /\ tasks = [t \in 1..(MaxTriggers + 1) |-> IF t = 1 THEN "sleeping" ELSE "none"]
    /\ current = 0
    /\ arrived = 0

SpecPost == InitPost /\ [][PostToDiscord]_vars

-----------------------------------------------------------------------------
(* The dashboard (src/web/dota_dashboard.py): update_loop, POST /api/update
   and update_system on the one event loop of uvicorn.run *)

\* where a task gives the event loop back: at asyncio.sleep (line 151) and
\* at its end; update_system has no such place, subprocess.run blocks the
\* loop and load_predictions (lines 64-118) has no await
SuspendsAfterCheck(p) == p \in {"sleeping", "done", "set"}

\* where a task gives the event loop back: at asyncio.sleep (line 151) and
\* at its end; update_system has no such place, subprocess.run blocks the
\* loop and load_predictions (lines 64-118) has no await
Suspends(p) == p \in {"sleeping", "done"}

\* a POST /api/update request reaches the server, whatever the loop is doing
RequestArrives ==
    /\ arrived + Cardinality({t \in DOMAIN tasks : tasks[t] # "none"}) <= MaxTriggers
    /\ arrived' = arrived + 1
    /\ UNCHANGED <<dota_props, predictions, prop_history, posted_slips, txn, pc, props,
                   preds, new_props, changed_props, webhook, check_count, reader_state,
                   snap0, idx, fetchVars, predVars, is_updating, tasks, current>>

\* lines 684-691: the handler runs when the loop is free and has no await:
\* "already_updating" when the flag is set, else create_task(update_system())
trigger_update ==
    /\ current = 0
    /\ arrived > 0
    /\ arrived' = arrived - 1
    /\ tasks' = IF is_updating THEN tasks
                ELSE LET t == CHOOSE u \in DOMAIN tasks :
                                 /\ tasks[u] = "none"
                                 /\ \A v \in DOMAIN tasks : tasks[v] = "none" => u <= v
                     IN [tasks EXCEPT ![t] = "check"]
    /\ UNCHANGED <<dota_props, predictions, prop_history, posted_slips, txn, pc, props,
                   preds, new_props, changed_props, webhook, check_count, reader_state,
                   snap0, idx, fetchVars, predVars, is_updating, current>>

\* lines 149-152: the sleep of update_loop is over and update_system() is
\* awaited: the loop's task goes on into the coroutine
update_loop ==
    /\ current = 0
    /\ tasks[1] = "sleeping"
    /\ tasks' = [tasks EXCEPT ![1] = "check"]
    /\ current' = 1
    /\ UNCHANGED <<dota_props, predictions, prop_history, posted_slips, txn, pc, props,
                   preds, new_props, changed_props, webhook, check_count, reader_state,
                   snap0, idx, fetchVars, predVars, is_updating, arrived>>

\* lines 120-142, one statement of task t: the test of the flag (124), its
\* setting (127), the two subprocess.run (130, 133) and load_predictions
\* (137), each of which may raise into the except of line 139, and the
\* reset of the flag (142); the task keeps the loop until it suspends
update_system(t) ==
    /\ current \in {0, t}
    /\ tasks[t] \in {"check", "set", "pipeline", "predict", "load", "reset"}
    /\ \E raised \in BOOLEAN :
         tasks' = [tasks EXCEPT ![t] =
             IF tasks[t] = "check" THEN (IF is_updating
                                         THEN (IF t = 1 THEN "sleeping" ELSE "done")
                                         ELSE "set")
             ELSE IF tasks[t] = "set" THEN "pipeline"
             ELSE IF tasks[t] = "pipeline" THEN (IF raised THEN "reset" ELSE "predict")
             ELSE IF tasks[t] = "predict" THEN (IF raised THEN "reset" ELSE "load")
             ELSE IF tasks[t] = "load" THEN "reset"
             ELSE IF t = 1 THEN "sleeping" ELSE "done"]
    /\ is_updating' = IF tasks[t] = "set" THEN TRUE
                      ELSE IF tasks[t] = "reset" THEN FALSE
                      ELSE is_updating
    /\ current' = IF Suspends(tasks'[t]) THEN 0 ELSE t
    /\ UNCHANGED <<dota_props, predictions, prop_history, posted_slips, txn, pc, props,
                   preds, new_props, changed_props, webhook, check_count, reader_state,
                   snap0, idx, fetchVars, predVars, arrived>>

NextDash ==
    \/ RequestArrives
    \/ trigger_update
    \/ update_loop
    \/ \E t \in 1..(MaxTriggers + 1) : update_system(t)

SpecDash == Init /\ [][NextDash]_vars

-----------------------------------------------------------------------------
(* Properties of the store, checked under SpecStore *)

\* the entries of a list that no later entry of the same identity key follows
LastPerKey(s) == {s[k] : k \in {j \in 1..Len(s) : \A l \in (j+1)..Len(s) : Key(s[l]) # Key(s[j])}}

OneRowPerKey(table) ==
    \A j, k \in 1..Len(table) : Key(table[j]) = Key(table[k]) => j = k

\* C1: each snapshot table holds one row per identity key at all times, and
\* when a save has completed the tables hold the keys of that call's props
\* and no others: every row comes from that call, none from an earlier one.
C1_SnapshotReplaced ==
    /\ OneRowPerKey(dota_props)
    /\ OneRowPerKey(predictions)
    /\ pc = "saved" =>
          /\ Keys(dota_props) = Keys(props)
          /\ Keys(predictions) = Keys(preds)
          /\ Range(dota_props) \subseteq {PropRow(props[k]) : k \in 1..Len(props)}
          /\ Range(predictions) \subseteq {PredRow(preds[k]) : k \in 1..Len(preds)}

\* C1 witness: a save has completed over a snapshot that held a key the new
\* props do not hold
C1_Witness ==
    /\ pc = "saved"
    /\ props # <<>>
    /\ Keys(snap0.dota_props) \ Keys(props) # {}
    /\ Keys(dota_props) = Keys(props)

\* the snapshot a completed save of the running call's lists leaves
NewSnapshot ==
    [dota_props |-> [k \in 1..Len(props) |-> PropRow(props[k])],
     predictions |-> [k \in 1..Len(preds) |-> PredRow(preds[k])]]

\* the snapshot of the running call's lists, one row per key (the last)
NewSnapshotPerKey(snap) ==
    /\ Range(snap.dota_props) = {PropRow(q) : q \in LastPerKey(props)}
    /\ Range(snap.predictions) = {PredRow(q) : q \in LastPerKey(preds)}
    /\ OneRowPerKey(snap.dota_props)
    /\ OneRowPerKey(snap.predictions)

\* C2: from the entry of a save to its return, what a reader loads is the
\* complete snapshot of before the call or the complete snapshot of the call,
\* never a cleared or partly filled table.
C2_ReaderSeesWholeSnapshot ==
    [][ (pc \in SavePcs \cup {"saved"}) =>
          \/ reader_state' = reader_state
          \/ reader_state' = snap0
          \/ pc = "saved" /\ NewSnapshotPerKey(reader_state')
      ]_vars

\* C2 witness: with both DELETEs and an insert done in the open transaction,
\* the reader has loaded the whole, non-empty snapshot of before the call
C2_Witness ==
    /\ pc \in {"save_insert_props", "save_insert_predictions", "save_commit"}
    /\ txn.open
    /\ txn.dota_props # snap0.dota_props
    /\ snap0.dota_props # <<>>
    /\ snap0.predictions # <<>>
    /\ reader_state = snap0

\* C3: when a save has raised, the persisted snapshot is the one of before
\* the call, whatever the statement that raised; no further statement of that
\* save runs and the snapshot stays as it is until another call is made.
C3_FailedSaveKeepsSnapshot ==
    /\ [](pc = "failed" => ReadSnapshot = snap0)
    /\ [][(pc = "failed") =>
            /\ pc' \notin SavePcs \cup {"saved"}
            /\ dota_props' = dota_props
            /\ predictions' = predictions]_vars

\* C3 witness: a save raised inside an insert loop, after both DELETEs ran
\* on a non-empty snapshot
C3_Witness ==
    /\ pc = "failed"
    /\ idx > 1
    /\ snap0.dota_props # <<>>
    /\ snap0.predictions # <<>>
    /\ dota_props = snap0.dota_props

\* C4 as claimed: after a save of P the snapshot read back is P, row for row
\* with the same multiplicity.
C4_RoundTripExact ==
    pc = "saved" => ReadSnapshot = NewSnapshot

\* C4 amended: after a save of P the snapshot read back holds, for each
\* identity key of P, the row of the last entry of P with that key and no
\* other row; it is P row for row when no two entries of P share a key; and
\* after a save of the empty list both tables have no rows.
C4_RoundTripPerKey ==
    pc = "saved" =>
        /\ NewSnapshotPerKey(ReadSnapshot)
        /\ OneRowPerKey(NewSnapshot.dota_props) => ReadSnapshot = NewSnapshot
        /\ props = <<>> => (dota_props = <<>> /\ predictions = <<>>)

\* C4 witness: a list with two entries of one key was saved over a non-empty
\* snapshot and one row is read back
C4_Witness ==
    /\ pc = "saved"
    /\ Len(props) = 2
    /\ Len(dota_props) = 1
    /\ props[1] # props[2]
    /\ snap0.dota_props # <<>>

\* C4 witness of the empty list: it cleared a non-empty snapshot
C4_WitnessEmpty ==
    /\ pc = "saved"
    /\ props = <<>>
    /\ snap0.dota_props # <<>>
    /\ dota_props = <<>>

-----------------------------------------------------------------------------
(* Properties of the change tracker, checked under SpecTracker *)

IsPrefix(s, t) == Len(s) <= Len(t) /\ \A k \in 1..Len(s) : t[k] = s[k]

SamePlayerStat(a, b) == a.player = b.player /\ a.stat_type = b.stat_type

\* the lines a list holds for the (player, stat type) of p
LinesOf(s, p) == {s[k].line : k \in {j \in 1..Len(s) : SamePlayerStat(s[j], p)}}

\* the line of the latest history row of p's (player, stat type)
LatestLines(hist, p) == {hist[k].line : k \in SelectLatestLine(hist, p)}

\* C5: the history ledger is append-only: a call keeps every row as it is,
\* adds a row exactly for the hashes of its props that had no row yet, and
\* never holds two rows of one hash.
C5_HistoryAppendOnly ==
    [][ /\ IsPrefix(prop_history, prop_history')
        /\ Keys(prop_history') = Keys(prop_history) \cup Keys(props')
        /\ \A j, k \in 1..Len(prop_history') :
              (\/ prop_history'[j].prop_hash = prop_history'[k].prop_hash
               \/ Key(prop_history'[j]) = Key(prop_history'[k])) => j = k
        /\ \A k \in 1..Len(prop_history') :
              prop_history'[k].prop_hash = prop_hash(prop_history'[k])
      ]_vars

\* C5 witness: a prop whose hash already had a row was observed again, next
\* to rows of other hashes
C5_Witness ==
    /\ Len(prop_history) >= 3
    /\ Len(props) = 2
    /\ Len(new_props) + Len(changed_props) = 1

\* C6: a prop classified in one call is UNCHANGED (in neither list) in the
\* next call; and it was NEW in the first call when nothing was recorded for
\* its (player, stat type) and the call held no other line of it.
C6_NewThenUnchanged ==
    [][ \A p \in Range(props') :
          /\ p \in Range(props) =>
                Key(p) \notin Keys(new_props') \cup Keys(changed_props')
          /\ (LinesOf(prop_history, p) = {} /\ LinesOf(props', p) = {p.line}) =>
                (Key(p) \in Keys(new_props') /\ Key(p) \notin Keys(changed_props'))
      ]_vars

\* C6 witness: the only prop ever recorded was classified again, UNCHANGED
C6_Witness ==
    /\ Len(props) = 1
    /\ Keys(prop_history) = Keys(props)
    /\ new_props = <<>>
    /\ changed_props = <<>>

\* C7 as claimed: a known (player, stat type) whose line moves to a value not
\* seen before is CHANGED, with old_line the line it had in the call before.
C7_OldLineIsPrecedingLine ==
    [][ \A p \in Range(props') :
          ( /\ Cardinality(LinesOf(props, p)) = 1
            /\ LinesOf(props', p) = {p.line}
            /\ p.line \notin LinesOf(prop_history, p) )
          => \E k \in 1..Len(changed_props') :
                /\ Key(changed_props'[k]) = Key(p)
                /\ changed_props'[k].old_line \in LinesOf(props, p)
      ]_vars

\* C8: a prop whose line was recorded before and is no longer the latest line
\* of its (player, stat type) - a line that came back - is UNCHANGED: it is in
\* neither list and gets no history row; a call of such props alone returns
\* two empty lists, which is what keeps the alert gate shut.
C8_RevertIsUnchanged ==
    [][ /\ \A p \in Range(props') :
              ( /\ p.line \in LinesOf(prop_history, p)
                /\ LatestLines(prop_history, p) # {p.line} )
              => /\ Key(p) \notin Keys(new_props') \cup Keys(changed_props')
                 /\ \A k \in 1..Len(prop_history') :
                       Key(prop_history'[k]) = Key(p) => k <= Len(prop_history)
        /\ (\A p \in Range(props') : p.line \in LinesOf(prop_history, p))
              => (new_props' = <<>> /\ changed_props' = <<>> /\ prop_history' = prop_history)
      ]_vars

\* C8 witness: the line classified last is an older line of its (player, stat
\* type), a later line being on record, and nothing was reported
C8_Witness ==
    /\ Len(props) = 1
    /\ props[1].line \in LinesOf(prop_history, props[1])
    /\ LatestLines(prop_history, props[1]) # {props[1].line}
    /\ new_props = <<>>
    /\ changed_props = <<>>

\* the lists that differ from batch at most in team, opponent, match title
\* and odds
Variants(batch) ==
    {[k \in 1..Len(batch) |->
        MkProp(batch[k].player, batch[k].stat_type, batch[k].line, ms[k])] :
     ms \in [1..Len(batch) -> {MetaOG, MetaLiquid}]}

\* a classification without the fields outside the identity key
Classes(new, changed) ==
    << [k \in 1..Len(new) |-> Key(new[k])],
       [k \in 1..Len(changed) |-> <<Key(changed[k]), changed[k].old_line>>] >>

\* C9: run on the same history, a list that differs from the one classified
\* only in team, opponent, match title or odds gets the same classification
\* and leaves the same history.
C9_TeamAndOddsInvisible ==
    [][ \A alt \in Variants(props') :
          LET r == DetectChanges(prop_history, alt)
          IN /\ r.hist = prop_history'
             /\ Classes(r.new, r.changed) = Classes(new_props', changed_props')
      ]_vars

\* C9 witness: one call held the same (player, stat type, line) under two
\* teams; the first was NEW and the reassigned one went unnoticed
C9_Witness ==
    /\ Len(props) = 2
    /\ Key(props[1]) = Key(props[2])
    /\ props[1].team # props[2].team
    /\ new_props = <<props[1]>>
    /\ changed_props = <<>>

-----------------------------------------------------------------------------
(* Properties of the monitor loop, checked under Spec *)

\* C10: the webhook is posted to in a cycle only when that cycle's
\* detect_changes returned a NEW or CHANGED prop, and what is posted then is
\* every prediction of the cycle that is not PASS and has |edge| >= MIN_EDGE,
\* those of UNCHANGED props included.
C10_PostOnlyOnChange ==
    webhook.attempted =>
        /\ new_props # <<>> \/ changed_props # <<>>
        /\ Range(webhook.picks) =
              {q \in Range(preds) : q.pick # "PASS" /\ Abs(q.edge) >= MIN_EDGE}

\* C10 witness: a post went out whose picks hold one of a prop that this
\* cycle's detect_changes left UNCHANGED
C10_Witness ==
    /\ webhook.attempted
    /\ \E q \in Range(webhook.picks) :
          Key(q) \notin Keys(new_props) \cup Keys(changed_props)

-----------------------------------------------------------------------------
(* Properties of the orchestrator, checked under Spec and SpecOnce *)

\* C11 as claimed: a monitor cycle whose fetch succeeded persists the
\* snapshot of the props it normalized, however many they are: when such a
\* cycle ends, the snapshot tables hold the keys of that cycle's props and no
\* others.
C11_SnapshotFollowsEveryFetch ==
    [][ (pc \in {"fetched", "saved"} /\ pc' = "idle" /\ data # None /\ Parsed(data).ok)
          => /\ Keys(dota_props') = Keys(Parsed(data).props)
             /\ Keys(predictions') = Keys(Parsed(data).props)
      ]_vars

\* C12 as claimed: a single run that got props has classified them against
\* the history (each of them has a history row when the run is done) and has
\* posted to the webhook only if the classification found a NEW or CHANGED
\* prop.
C12_RunOnceClassifies ==
    (pc = "done" /\ props # <<>>) =>
        /\ Keys(props) \subseteq Keys(prop_history)
        /\ webhook.attempted => (new_props # <<>> \/ changed_props # <<>>)

\* C13 as claimed: the snapshot is persisted before change detection touches
\* the history: when a history row is committed, the committed snapshot
\* already holds the row's prop.
C13_PersistBeforeClassify ==
    [][ \A k \in 1..Len(prop_history') :
            k > Len(prop_history) => Key(prop_history'[k]) \in Keys(dota_props)
      ]_vars

\* a request that got no document: no answer, a status other than 200, or a
\* text that is no JSON
Failed(r) == r.kind = "exception" \/ r.status_code # 200 \/ r.body = NotJson

\* every URL of API_URLS was asked and failed
AllEndpointsFailed ==
    /\ Len(requests_log) = Len(API_URLS)
    /\ \A k \in 1..Len(requests_log) : Failed(requests_log[k].response)

\* C14: a monitor cycle whose fetch failed on every endpoint goes straight to
\* the sleep: it normalizes, predicts, persists, classifies and posts
\* nothing, the snapshot tables and the history ledger stay as they are, and
\* the loop is back at the top for its next cycle.
C14_FailedFetchChangesNothing ==
    [][ (pc = "fetched" /\ AllEndpointsFailed) =>
          /\ pc' = "idle"
          /\ dota_props' = dota_props
          /\ predictions' = predictions
          /\ prop_history' = prop_history
          /\ posted_slips' = posted_slips
          /\ txn' = txn
          /\ props' = <<>>
          /\ preds' = <<>>
          /\ new_props' = <<>>
          /\ changed_props' = <<>>
          /\ webhook' = NoPost
          /\ check_count' = check_count
      ]_vars

\* C14 witness: a later cycle of a run found every endpoint failing, with a
\* snapshot and a history on record, and is back at the top of the loop
C14_Witness ==
    /\ pc = "idle"
    /\ check_count >= 2
    /\ AllEndpointsFailed
    /\ data = None
    /\ dota_props # <<>>
    /\ predictions # <<>>
    /\ prop_history # <<>>

-----------------------------------------------------------------------------
(* Properties of the feed client, checked under SpecFetch *)

\* a URL that answered successfully with decodable JSON
Answered(r) == ~Failed(r)

\* C15 as claimed: the URLs are asked in list order, none twice and none
\* after one that answered; the call returns the document of the first URL
\* that answered, returns None exactly when every URL failed, and never
\* raises.
C15_FirstAnswerOrNone ==
    /\ pc # "failed"
    /\ Len(requests_log) <= Len(API_URLS)
    /\ \A k \in 1..Len(requests_log) :
          /\ requests_log[k].url = API_URLS[k]
          /\ k < Len(requests_log) => Failed(requests_log[k].response)
    /\ pc = "fetched" =>
          IF AllEndpointsFailed THEN data = None
          ELSE /\ Answered(requests_log[Len(requests_log)].response)
               /\ data = requests_log[Len(requests_log)].response.body

-----------------------------------------------------------------------------
(* Properties of the normalizer, checked under SpecParse *)

\* C16 as claimed: for any raw document parse_dota_props returns without
\* raising, and every prop it returns has line > 0 and a non-empty player.
C16_ParseNeverRaises ==
    /\ pc # "failed"
    /\ pc = "parsed" =>
          \A k \in 1..Len(props) : props[k].line > 0 /\ props[k].player # ""

\* a list without its k-th entry
Without(s, k) == SubSeq(s, 1, k - 1) \o SubSeq(s, k + 1, Len(s))

\* the document is a dict whose over_under_lines is a list
HasEntryList(d) ==
    IsDict(d) /\ "over_under_lines" \in DOMAIN d /\ d.over_under_lines.type = "list"

\* C17: a malformed entry is isolated: the props returned for a document
\* that holds one are, in the same order, the props returned for the
\* document without that entry.
C17_MalformedEntryIsolated ==
    (pc = "parsed" /\ HasEntryList(data)) =>
        \A k \in 1..Len(data.over_under_lines.items) :
            data.over_under_lines.items[k] \in MalformedEntries =>
                props = parse_dota_props(
                            [data EXCEPT !.over_under_lines =
                                PyList(Without(data.over_under_lines.items, k))]).props

\* C17 witness: a document of a malformed entry followed by a well-formed
\* one was parsed, and the one prop came back
C17_Witness ==
    /\ pc = "parsed"
    /\ HasEntryList(data)
    /\ Len(data.over_under_lines.items) = 2
    /\ data.over_under_lines.items[1] \in MalformedEntries
    /\ Len(props) = 1

\* the option's payout multiplier (1.0 when it has none) is within 0.1 of
\* 1.0, the distance being taken in doubles, where 1.1 - 1.0 exceeds 0.1 and
\* 1.0 - 0.9 does not
WithinTenth(opt) ==
    LET payout == FloatOf(Get(opt, "payout_multiplier", PyFloat(100)))
    IN payout.ok /\ payout.f # NaN /\ payout.f >= 90 /\ payout.f <= 109

\* the option's price as a string, "-110" when it has none
PriceOf(opt) ==
    IF Get(opt, "american_price", None) = None THEN "-110"
    ELSE StrOf(Get(opt, "american_price", None))

\* the price the last option within 0.1 of 1.0 and of a choice in labels
\* sets, "-110" when there is none
OddsSetBy(opts, labels) ==
    LET hits == {k \in 1..Len(opts) :
                    WithinTenth(opts[k]) /\ Lower(opts[k].choice.s) \in labels}
    IN IF hits = {} THEN "-110" ELSE PriceOf(opts[Last(hits)])

\* the document holds one entry, whose options are all dicts with a choice
OneEntryWithOptions(d) ==
    /\ HasEntryList(d)
    /\ Len(d.over_under_lines.items) = 1
    /\ IsDict(d.over_under_lines.items[1])
    /\ "options" \in DOMAIN d.over_under_lines.items[1]
    /\ \A k \in 1..Len(d.over_under_lines.items[1].options.items) :
          /\ IsDict(d.over_under_lines.items[1].options.items[k])
          /\ "choice" \in DOMAIN d.over_under_lines.items[1].options.items[k]

\* C18 as claimed: only options whose payout multiplier is within 0.1 of 1.0
\* bear on the odds; such an option of choice higher / over sets over_odds and
\* one of choice lower / under sets under_odds, to its price as a string or to
\* "-110" when it has no price; with no such option both are "-110".
C18_OddsFromAcceptedOptions ==
    (pc = "parsed" /\ OneEntryWithOptions(data) /\ Len(props) = 1) =>
        /\ props[1].over_odds =
              OddsSetBy(data.over_under_lines.items[1].options.items, {"higher", "over"})
        /\ props[1].under_odds =
              OddsSetBy(data.over_under_lines.items[1].options.items, {"lower", "under"})

-----------------------------------------------------------------------------
(* Properties of the decision policy, checked under SpecPredict *)

\* C19: with edge = (prediction - line) / line * 100 for line > 0, the pick
\* is PASS exactly when |edge| < MIN_EDGE, OVER exactly when edge >= MIN_EDGE
\* and UNDER exactly when edge <= -MIN_EDGE; PASS comes with confidence 50
\* and ev 0 and no other pick does; the edge returned is that edge rounded to
\* one decimal; for line <= 0 the edge is 0 and the pick PASS.
C19_DecisionPolicy ==
    pc = "predicted" =>
        LET line == pred_call.line
            diff == pred_result.prediction - line
        IN /\ line > 0 =>
                /\ pred_result.pick = "PASS" <=> 1000 * Abs(diff) < MIN_EDGE * line
                /\ pred_result.pick = "OVER" <=> 1000 * diff >= MIN_EDGE * line
                /\ pred_result.pick = "UNDER" <=> 1000 * diff <= -MIN_EDGE * line
                /\ 2 * Abs(1000 * diff - pred_result.edge * line) <= line
           /\ line <= 0 => (pred_result.edge = 0 /\ pred_result.pick = "PASS")
           /\ pred_result.pick \in {"PASS", "OVER", "UNDER"}
           /\ pred_result.pick = "PASS" <=>
                (pred_result.confidence = 50 /\ pred_result.ev = 0)

\* C19 witness: a call whose edge is exactly MIN_EDGE was decided, and it is
\* a pick
C19_Witness ==
    /\ pc = "predicted"
    /\ pred_call.line > 0
    /\ 1000 * (pred_result.prediction - pred_call.line) = MIN_EDGE * pred_call.line
    /\ pred_result.pick = "OVER"

\* the decision of the entry point that made the call, on another prediction
\* for the same line
SameEntryPoint(prediction, line) ==
    IF pc = "predicted" THEN Decide(prediction, line) ELSE EngineDecide(prediction, line)

\* C20 as claimed: among the picks of an entry point, confidence does not
\* fall when |edge| grows and stays within the cap, equal confidence means
\* equal EV, and both entry points give a prediction and a line the same
\* confidence and EV.
C20_OneConfidenceEvFormula ==
    (pc \in {"predicted", "engine_predicted"} /\ pred_result.pick # "PASS") =>
        /\ pred_result.confidence <= 95
        /\ \A p \in 0..(MaxLine + MaxLine \div 3) :
              LET other == SameEntryPoint(p, pred_call.line)
              IN other.pick # "PASS" =>
                    /\ Abs(p - pred_call.line) <= Abs(pred_result.prediction - pred_call.line)
                          => other.confidence <= pred_result.confidence
                    /\ other.confidence = pred_result.confidence
                          => other.ev = pred_result.ev
        /\ Decide(pred_result.prediction, pred_call.line).confidence
              = EngineDecide(pred_result.prediction, pred_call.line).confidence
        /\ Decide(pred_result.prediction, pred_call.line).ev
              = EngineDecide(pred_result.prediction, pred_call.line).ev

\* C21: for a player the averages have no entry for, generate_prediction
\* returns the line as the prediction, edge 0 and pick PASS, whatever the
\* stat type; and a batch posted with that prediction in it does not hold it.
C21_NoAveragesIsPass ==
    (pc \in {"predicted", "posted"} /\ pred_call.player \notin DOMAIN pred_call.avgs) =>
        /\ pred_result.prediction = pred_call.line
        /\ pred_result.edge = 0
        /\ pred_result.pick = "PASS"
        /\ pc = "posted" =>
              \A k \in 1..Len(webhook.picks) : webhook.picks[k].player # pred_call.player

\* C21 witness: a batch with a prediction for a player without averages, on a
\* stat type other than Kills, was posted, and the post holds the other pick
C21_Witness ==
    /\ pc = "posted"
    /\ pred_call.player \notin DOMAIN pred_call.avgs
    /\ pred_call.stat_type = "Fantasy Points"
    /\ pred_call.line > 0
    /\ webhook.attempted
    /\ Len(webhook.picks) = 1

\* the number of times p occurs in the sequence s
Occurrences(p, s) == Cardinality({k \in 1..Len(s) : s[k] = p})

\* C22: a call of post_to_discord with n > 0 predictions that have a pick
\* other than PASS and |edge| >= MIN_EDGE makes one webhook post; its picks
\* are exactly those n predictions, ordered by non-increasing |edge|; the
\* message states n in its header, lists the first min(n, 10) picks, and has
\* the overflow count n - 10 exactly when n > 10.
C22_TopTenMessage ==
    LET sel == SelectSeq(preds, LAMBDA p : p.pick # "PASS" /\ Abs(p.edge) >= MIN_EDGE)
        n == Len(sel)
    IN (pc = "posted" /\ n > 0) =>
        /\ webhook.attempted
        /\ Len(webhook.picks) = n
        /\ \A p \in Range(preds) \cup Range(webhook.picks) :
              Occurrences(p, webhook.picks) = Occurrences(p, sel)
        /\ \A k \in 1..(n - 1) : Abs(webhook.picks[k].edge) >= Abs(webhook.picks[k + 1].edge)
        /\ webhook.message.total = n
        /\ Len(webhook.message.listed) = Min(n, 10)
        /\ \A k \in 1..Min(n, 10) : webhook.message.listed[k] = webhook.picks[k]
        /\ (webhook.message.more # <<>>) <=> (n > 10)
        /\ n > 10 => webhook.message.more = <<n - 10>>

\* C22 witness: a batch with a PASS prediction and more than ten picks that
\* qualify, of different |edge|, was posted with an overflow count
C22_Witness ==
    /\ pc = "posted"
    /\ webhook.attempted
    /\ \E p \in Range(preds) : p.pick = "PASS"
    /\ Len(webhook.picks) > 10
    /\ Len(webhook.message.listed) = 10
    /\ webhook.message.more = <<Len(webhook.picks) - 10>>
    /\ Abs(webhook.picks[1].edge) > Abs(webhook.picks[11].edge)

\* C23: a call of post_to_discord with predictions none of which has a pick
\* other than PASS and |edge| >= MIN_EDGE (the empty list included) makes no
\* webhook request and returns False.
C23_NothingToPost ==
    (pc = "posted" /\ \A p \in Range(preds) : p.pick = "PASS" \/ Abs(p.edge) < MIN_EDGE) =>
        /\ ~webhook.attempted
        /\ webhook.response = None
        /\ webhook.returned = FALSE

\* C23 witness: post_to_discord has returned from a call with predictions,
\* all of them PASS
C23_Witness ==
    /\ pc = "posted"
    /\ Len(preds) > 1
    /\ \A p \in Range(preds) : p.pick = "PASS"
    /\ ~webhook.attempted

\* C24: when the webhook request of a monitor cycle fails (no response, or a
\* status other than 2xx), post_to_discord returns False, the snapshot and the
\* history stay as they were committed, the monitor goes to its sleep, and
\* from there it can start the next cycle.
C24_WebhookFailureContained ==
    /\ [][(pc = "saved" /\ webhook'.attempted /\ webhook'.response # "2xx") =>
            /\ webhook'.returned = FALSE
            /\ pc' = "idle"
            /\ dota_props' = dota_props
            /\ predictions' = predictions
            /\ prop_history' = prop_history]_vars
    /\ []((pc = "idle" /\ webhook.attempted /\ ~webhook.returned /\ check_count < MaxChecks)
            => ENABLED MonitorTick)

\* C24 witness: the monitor sleeps after a cycle whose webhook request got no
\* response, with the snapshot and the history of that cycle in the store
C24_Witness ==
    /\ pc = "idle"
    /\ webhook.attempted
    /\ webhook.response = "network_error"
    /\ ~webhook.returned
    /\ check_count < MaxChecks
    /\ dota_props # <<>>
    /\ prop_history # <<>>

\* C25: a failure in a monitor cycle is recovered within the cycle and the
\* loop keeps running; for the PersistenceFailure: no step taken while
\* save_props_and_predictions is writing ends the monitor loop.
C25_LoopSurvivesFailures ==
    [][(pc \in SavePcs) => (pc' # "failed")]_vars

\* the update_system executions that have passed the test of the flag and
\* have not reset it yet
Updating == {t \in DOMAIN tasks : tasks[t] \in {"set", "pipeline", "predict", "load", "reset"}}

C27_SameKeysInBothTables ==
    Keys(predictions) = Keys(dota_props)

\* C27 witness: a save has been committed with two keys in both tables, one
\* of them of a prop whose prediction is PASS
C27_Witness ==
    /\ pc = "saved"
    /\ Cardinality(Keys(dota_props)) = 2
    /\ Cardinality(Keys(predictions)) = 2
    /\ \E k \in 1..Len(predictions) : predictions[k].pick_direction = "PASS"
    /\ \E k \in 1..Len(predictions) : predictions[k].pick_direction # "PASS"

\* C28: in one detect_changes call on two props of the same (player, stat
\* type) with different lines, neither line on record, the second prop is
\* CHANGED with old_line the line of the first, which the same call has just
\* recorded; and the first is NEW when nothing was on record for that
\* (player, stat type).
C28_SameCallRowsAreSeen ==
    [][(/\ Len(props') = 2
        /\ SamePlayerStat(props'[1], props'[2])
        /\ props'[1].line # props'[2].line
        /\ LinesOf(props', props'[1]) \cap LinesOf(prop_history, props'[1]) = {})
       => /\ changed_props' # <<>>
          /\ changed_props'[Len(changed_props')] = props'[2] @@ ("old_line" :> props'[1].line)
          /\ Key(props'[2]) \notin Keys(new_props')
          /\ LinesOf(prop_history, props'[1]) = {} =>
                (new_props' = <<props'[1]>> /\ Len(changed_props') = 1)
      ]_vars

\* C28 witness: the first call ever, on two lines of one (player, stat type):
\* one NEW, one CHANGED from the line of the other, two rows recorded
C28_Witness ==
    /\ Len(props) = 2
    /\ Len(prop_history) = 2
    /\ new_props = <<props[1]>>
    /\ Len(changed_props) = 1
    /\ Key(changed_props[1]) = Key(props[2])
    /\ changed_props[1].old_line = props[1].line
    /\ props[1].line # props[2].line

\* C29: a content hash (player, stat type, line) is classified NEW or
\* CHANGED in at most one monitor cycle: the classification happens only in
\* detect_changes, only for a hash without a history row, and commits that
\* row, which no later step removes, whether the save or the post that
\* follows fails or not; and a post is attempted only in a cycle that
\* classified some prop.
C29_ClassifiedAtMostOnce ==
    /\ [][IsPrefix(prop_history, prop_history')]_vars
    /\ [][IF pc = "fetched" /\ pc' = "save_delete_props"
          THEN \A p \in Range(new_props') \cup Range(changed_props') :
                  /\ Key(p) \notin Keys(prop_history)
                  /\ Key(p) \in Keys(prop_history')
          ELSE /\ Range(new_props') \subseteq Range(new_props)
               /\ Range(changed_props') \subseteq Range(changed_props)]_vars
    /\ [](webhook.attempted => (new_props # <<>> \/ changed_props # <<>>))

\* C29 witness: the first cycle of a monitor that was started again finds its
\* props UNCHANGED, their rows being on record, while the snapshot was never
\* written: the save of the cycle that classified them had failed
C29_Witness ==
    /\ pc = "save_delete_props"
    /\ check_count = 1
    /\ props # <<>>
    /\ new_props = <<>>
    /\ changed_props = <<>>
    /\ Keys(props) \subseteq Keys(prop_history)
    /\ dota_props = <<>>

\* the picks a list of rows of the predictions table holds: key and direction
\* of the rows that are not PASS and have |edge| >= MIN_EDGE
PicksOfRows(rows) ==
    {<<Key(rows[k]), rows[k].pick_direction>> :
        k \in {j \in 1..Len(rows) : /\ rows[j].pick_direction # "PASS"
                                     /\ Abs(rows[j].edge) >= MIN_EDGE}}

\* C30: no run writes posted_slips, which stays empty, and the post of a run
\* does not depend on what was posted before: a run that saved predictions
\* with a pick posts them.
C30_LedgerUnused ==
    /\ [](posted_slips = {})
    /\ [][(pc = "saved") =>
            (webhook'.attempted <=>
                \E p \in Range(preds) : p.pick # "PASS" /\ Abs(p.edge) >= MIN_EDGE)]_vars

\* C30 witness: a run has posted the very picks of the snapshot it replaced,
\* which the run that saved that snapshot had posted, and the ledger is empty
C30_Witness ==
    /\ pc = "done"
    /\ webhook.attempted
    /\ posted_slips = {}
    /\ PicksOfRows(snap0.predictions) # {}
    /\ PicksOfRows(snap0.predictions) =
          {<<Key(webhook.picks[k]), webhook.picks[k].pick>> : k \in 1..Len(webhook.picks)}

====
